---- MODULE Spec2Model ----
(***************************************************************************)
(* A model of the NHL standings build: the snapshot validator              *)
(* (utils/validation), the acquirer with retry, backoff and cache fallback *)
(* (scripts/fetchData) and the build orchestration (scripts/build).        *)
(*                                                                         *)
(* JavaScript values are modelled as tagged records.  A primitive is       *)
(*   [t |-> typeof tag, k |-> number kind, n |-> integer, s |-> string]    *)
(* and an object that may carry a `default` property is                    *)
(*   [t |-> "object", def |-> primitive].                                  *)
(* Numbers are integers, NaN or +Infinity; fractional numbers are outside  *)
(* the model.                                                              *)
(*                                                                         *)
(* The ranking engine (utils/calculations), the classifier (utils/playoffs *)
(* and scripts/processStandings) and the projector (utils/playoffCalculator)*)
(* work on Team records.  A pointPercentage is held in thousandths (0.625  *)
(* is 625): it is always Math.round(x * 1000) / 1000, and k / 1000 is      *)
(* strictly increasing in the integer k.                                   *)
(***************************************************************************)
EXTENDS Integers, Sequences, FiniteSets, TLC

VARIABLES
    vin,        \* validator: the value handed to validateNHLApiResponse
    vres,       \* validator: what the call did (returned result or threw)
    pc,         \* build: position of the build run / fetchNHLData call
    attempt,    \* fetchNHLData: loop variable `attempt`
    lastError,  \* fetchNHLData: message of `lastError` ("" while null)
    fetched,    \* fetchNHLData: name of the payload of the current attempt
    delay,      \* fetchNHLData: `delay` of the wait in progress
    log,        \* history of the current fetchNHLData call
    now,        \* the clock, in ms
    cacheDir,   \* whether CACHE_DIR exists
    cache,      \* content of CACHE_FILE
    writing,    \* cacheResponse: the cache entry being written
    fetchResult,\* build: what fetchNHLData returned or threw
    calls,      \* build: processStandings / generateSite invocations so far
    site,       \* the document last handed to generateSite
    exitCode,   \* exit status of the last finished build run
    builds,     \* number of build runs started
    teams,      \* the Team array at hand: the argument of sortTeamsByStandings,
                \* the local `teams` of processStandings
    ranked,     \* ranking engine: the last call and what it returned
    raw,        \* processStandings: rawData.standings
    stage,      \* processStandings: the statement reached
    doc,        \* processStandings: the returned document
    proj,       \* projector: the last calculatePlayoffStats call and its result
    ui,         \* page: the document and sessionStorage as app.ts leaves them
    timers      \* page: callbacks handed to setTimeout and requestAnimationFrame

valVars == <<vin, vres>>
buildVars == <<pc, attempt, lastError, fetched, delay, log, now, cacheDir, cache,
               writing, fetchResult, calls, site, exitCode, builds>>
rankVars == <<teams, ranked>>
processVars == <<raw, stage, doc>>
projVars == <<proj>>
appVars == <<ui, timers>>
standingsVars == <<rankVars, processVars, projVars, appVars>>
vars == <<vin, vres, pc, attempt, lastError, fetched, delay, log, now, cacheDir,
          cache, writing, fetchResult, calls, site, exitCode, builds,
          teams, ranked, raw, stage, doc, proj, ui, timers>>

(***************************************************************************)
(* JavaScript values                                                       *)
(***************************************************************************)
JsUndefined == [t |-> "undefined", k |-> "", n |-> 0, s |-> ""]
JsNull == [t |-> "null", k |-> "", n |-> 0, s |-> ""]
JsNum(i) == [t |-> "number", k |-> "fin", n |-> i, s |-> ""]
JsNaN == [t |-> "number", k |-> "nan", n |-> 0, s |-> ""]
JsInfinity == [t |-> "number", k |-> "inf", n |-> 0, s |-> ""]
JsStr(str) == [t |-> "string", k |-> "", n |-> 0, s |-> str]
JsTrue == [t |-> "boolean", k |-> "", n |-> 1, s |-> ""]
JsObj(d) == [t |-> "object", def |-> d]

\* typeof v
TypeOf(v) == IF v.t = "null" THEN "object" ELSE v.t

\* !!v
Truthy(v) ==
    CASE v.t = "object" -> TRUE
      [] v.t = "number" -> (v.k = "inf") \/ (v.k = "fin" /\ v.n # 0)
      [] v.t = "string" -> v.s # ""
      [] v.t = "boolean" -> v.n = 1
      [] OTHER -> FALSE

\* v.default for a non-nullish v
DefaultOf(v) == IF v.t = "object" THEN v.def ELSE JsUndefined

\* The decimal strings ToNumber is asked to read in this model.
DecimalRange == 0 .. 400

\* ToNumber(v) for the primitives of the model
ToNumber(v) ==
    CASE v.t = "number" -> v
      [] v.t = "boolean" -> JsNum(v.n)
      [] v.t = "null" -> JsNum(0)
      [] v.t = "string" ->
            IF v.s = "" THEN JsNum(0)
            ELSE IF \E i \in DecimalRange : ToString(i) = v.s
                 THEN JsNum(CHOOSE i \in DecimalRange : ToString(i) = v.s)
                 ELSE JsNaN
      [] OTHER -> JsNaN

\* String(v) for the primitives of the model
JsToString(v) ==
    CASE v.t = "string" -> v.s
      [] v.t = "number" -> IF v.k = "fin" THEN ToString(v.n)
                           ELSE IF v.k = "nan" THEN "NaN" ELSE "Infinity"
      [] v.t = "boolean" -> IF v.n = 1 THEN "true" ELSE "false"
      [] v.t = "null" -> "null"
      [] v.t = "undefined" -> "undefined"
      [] OTHER -> "[object Object]"

\* a + b on numbers
NumAdd(a, b) ==
    IF a.k = "nan" \/ b.k = "nan" THEN JsNaN
    ELSE IF a.k = "inf" \/ b.k = "inf" THEN JsInfinity
    ELSE JsNum(a.n + b.n)

\* a * b on numbers (0 * Infinity is NaN)
NumMul(a, b) ==
    IF a.k = "nan" \/ b.k = "nan" THEN JsNaN
    ELSE IF a.k = "inf" \/ b.k = "inf"
         THEN IF (a.k = "fin" /\ a.n = 0) \/ (b.k = "fin" /\ b.n = 0) THEN JsNaN
              ELSE IF (a.k = "fin" /\ a.n < 0) \/ (b.k = "fin" /\ b.n < 0)
                   THEN JsNaN  \* -Infinity lies outside the model's numbers
                   ELSE JsInfinity
    ELSE JsNum(a.n * b.n)

\* a + b: string concatenation as soon as one operand is a string or an object
JsAdd(a, b) ==
    IF a.t \in {"string", "object"} \/ b.t \in {"string", "object"}
    THEN JsStr(JsToString(a) \o JsToString(b))
    ELSE NumAdd(ToNumber(a), ToNumber(b))

\* a * b
JsMul(a, b) == NumMul(ToNumber(a), ToNumber(b))

\* a === b
StrictEq(a, b) ==
    /\ a.t = b.t
    /\ CASE a.t = "number" -> a.k # "nan" /\ b.k # "nan" /\ a.k = b.k /\ a.n = b.n
         [] a.t = "string" -> a.s = b.s
         [] a.t = "boolean" -> a.n = b.n
         [] a.t = "object" -> FALSE   \* two distinct objects
         [] OTHER -> TRUE

\* a < b on numbers
NumLess(a, b) ==
    /\ a.k # "nan" /\ b.k # "nan"
    /\ \/ a.k = "fin" /\ b.k = "inf"
       \/ a.k = "fin" /\ b.k = "fin" /\ a.n < b.n

\* the digits of a non-negative integer, most significant first
RECURSIVE Digits(_)
Digits(i) == IF i < 10 THEN <<i>> ELSE Append(Digits(i \div 10), i % 10)

\* lexicographic a < b on digit sequences
RECURSIVE LexLess(_, _)
LexLess(a, b) ==
    IF b = <<>> THEN FALSE
    ELSE IF a = <<>> THEN TRUE
    ELSE IF Head(a) # Head(b) THEN Head(a) < Head(b)
    ELSE LexLess(Tail(a), Tail(b))

\* a < b: two strings compare by code units (decimal strings in this model),
\* anything else by ToNumber
JsLess(a, b) ==
    IF a.t = "string" /\ b.t = "string"
    THEN LET x == ToNumber(a)
             y == ToNumber(b)
         IN  IF x.k = "fin" /\ y.k = "fin" /\ a.s # "" /\ b.s # ""
             THEN LexLess(Digits(x.n), Digits(y.n))
             ELSE a.s = "" /\ b.s # ""
    ELSE NumLess(ToNumber(a), ToNumber(b))

\* a > b
JsGreater(a, b) == JsLess(b, a)

(***************************************************************************)
(* utils/validation: validateNHLApiResponse and validateTeamEntry          *)
(***************************************************************************)
EXPECTED_TEAM_COUNT == 32
VALID_DIVISIONS == <<"Atlantic", "Metropolitan", "Central", "Pacific">>
VALID_CONFERENCES == <<"Eastern", "Western">>

\* Array.prototype.includes on an array of strings
Includes(arr, v) == v.t = "string" /\ \E i \in 1 .. Len(arr) : arr[i] = v.s

requiredFields ==
    <<"teamName", "teamAbbrev", "wins", "losses", "otLosses", "points",
      "gamesPlayed", "regulationWins", "divisionName", "conferenceName">>

numericValidations ==
    << [field |-> "wins", min |-> 0, max |-> 82],
       [field |-> "losses", min |-> 0, max |-> 82],
       [field |-> "otLosses", min |-> 0, max |-> 82],
       [field |-> "points", min |-> 0, max |-> 164],
       [field |-> "gamesPlayed", min |-> 0, max |-> 82],
       [field |-> "regulationWins", min |-> 0, max |-> 82] >>

\* The property names an entry of the model carries.
EntryFields ==
    {requiredFields[i] : i \in 1 .. Len(requiredFields)} \cup {"regulationPlusOtWins"}

\* A ValidationError: its field path and which message it carries.
Err(field, rule) == [field |-> field, rule |-> rule]

\* `standings[${index}]`, index counted from 0
Prefix(index) == "standings[" \o ToString(index) \o "]"

\* team[field]: reading a property of null or undefined throws, a primitive
\* has none of these properties
Reads(team) == team.t \notin {"null", "undefined"}
Get(team, field) == IF team.t = "object" THEN team.f[field] ELSE JsUndefined

\* requiredFields.forEach(...): one error per missing field, in field order
IsMissing(team, field) == Get(team, field).t \in {"undefined", "null"}

MissingErrors(team, index) ==
    LET missing == SelectSeq(requiredFields, LAMBDA field : IsMissing(team, field))
    IN  [i \in 1 .. Len(missing) |->
            Err(Prefix(index) \o "." \o missing[i], "missing")]

\* NumericRule with the upper limit off by one
NumericRuleLax(team, nv) ==
    LET value == Get(team, nv.field)
    IN  IF TypeOf(value) # "number" THEN "number"
        ELSE IF value.k # "fin" THEN "finite"
        ELSE IF value.n < nv.min \/ value.n > nv.max + 1 THEN "range"
        ELSE ""

\* the body of numericValidations.forEach for one field: the message it
\* pushes, "" when it pushes none
NumericRule(team, nv) ==
    LET value == Get(team, nv.field)
    IN  IF TypeOf(value) # "number" THEN "number"
        ELSE IF value.k # "fin" THEN "finite"
        ELSE IF value.n < nv.min \/ value.n > nv.max THEN "range"
        ELSE ""

NumericErrors(team, index) ==
    LET bad == SelectSeq(numericValidations, LAMBDA nv : NumericRule(team, nv) # "")
    IN  [i \in 1 .. Len(bad) |->
            Err(Prefix(index) \o "." \o bad[i].field, NumericRule(team, bad[i]))]

\* gamesPlayed !== wins + losses + otLosses
GamesPlayedError(team, index) ==
    LET totalGames == JsAdd(JsAdd(Get(team, "wins"), Get(team, "losses")),
                            Get(team, "otLosses"))
    IN  IF ~StrictEq(Get(team, "gamesPlayed"), totalGames)
        THEN <<Err(Prefix(index) \o ".gamesPlayed", "gamesPlayed")>>
        ELSE <<>>

\* points !== wins * 2 + otLosses
PointsError(team, index) ==
    LET expectedPoints == JsAdd(JsMul(Get(team, "wins"), JsNum(2)),
                                Get(team, "otLosses"))
    IN  IF ~StrictEq(Get(team, "points"), expectedPoints)
        THEN <<Err(Prefix(index) \o ".points", "points")>>
        ELSE <<>>

\* regulationWins > wins
RegulationWinsError(team, index) ==
    IF JsGreater(Get(team, "regulationWins"), Get(team, "wins"))
    THEN <<Err(Prefix(index) \o ".regulationWins", "regulationWins")>>
    ELSE <<>>

DivisionError(team, index) ==
    IF ~Includes(VALID_DIVISIONS, Get(team, "divisionName"))
    THEN <<Err(Prefix(index) \o ".divisionName", "division")>>
    ELSE <<>>

ConferenceError(team, index) ==
    IF ~Includes(VALID_CONFERENCES, Get(team, "conferenceName"))
    THEN <<Err(Prefix(index) \o ".conferenceName", "conference")>>
    ELSE <<>>

\* the teamName / teamAbbrev structure check: only an object is looked into
DefaultError(team, index, field) ==
    LET v == Get(team, field)
        d == DefaultOf(v)
    IN  IF Truthy(v) /\ TypeOf(v) = "object"
           /\ (~Truthy(d) \/ TypeOf(d) # "string")
        THEN <<Err(Prefix(index) \o "." \o field \o ".default", "default")>>
        ELSE <<>>

\* validateTeamEntry(team, index) for a team whose properties can be read
TeamErrors(team, index) ==
    LET missing == MissingErrors(team, index)
    IN  IF Len(missing) > 0 THEN missing
        ELSE NumericErrors(team, index)
             \o GamesPlayedError(team, index)
             \o PointsError(team, index)
             \o RegulationWinsError(team, index)
             \o DivisionError(team, index)
             \o ConferenceError(team, index)
             \o DefaultError(team, index, "teamName")
             \o DefaultError(team, index, "teamAbbrev")

\* validateTeamEntry: what it returns, or that it threw (a TypeError on the
\* first team[field] of a null or undefined entry)
validateTeamEntry(team, index) ==
    IF Reads(team) THEN [threw |-> FALSE, errors |-> TeamErrors(team, index)]
    ELSE [threw |-> TRUE, errors |-> <<>>]

\* data.standings.forEach(...): the entries' errors in entry order; a throw
\* of one entry ends the loop
RECURSIVE EntriesErrors(_, _)
EntriesErrors(items, i) ==
    IF i > Len(items) THEN [threw |-> FALSE, errors |-> <<>>]
    ELSE LET one == validateTeamEntry(items[i], i - 1)
         IN  IF one.threw THEN one
             ELSE LET rest == EntriesErrors(items, i + 1)
                  IN  [threw |-> rest.threw, errors |-> one.errors \o rest.errors]

\* data.standings of a non-nullish data
StandingsOf(data) ==
    IF data.t = "object" THEN data.standings
    ELSE [t |-> "undefined", truthy |-> FALSE, items |-> <<>>]

\* CountErrors without the check of the count
CountErrorsOff(items) == <<>>

\* the team count check
CountErrors(items) ==
    IF Len(items) # EXPECTED_TEAM_COUNT THEN <<Err("standings.length", "count")>>
    ELSE <<>>

\* What a call of validateNHLApiResponse did.
Returned(isValid, errors) == [threw |-> FALSE, isValid |-> isValid, errors |-> errors]
Threw == [threw |-> TRUE, isValid |-> FALSE, errors |-> <<>>]

validateNHLApiResponse(data) ==
    IF ~data.truthy THEN Returned(FALSE, <<Err("data", "data")>>)
    ELSE LET standings == StandingsOf(data)
         IN  IF ~standings.truthy
             THEN Returned(FALSE, <<Err("standings", "standingsMissing")>>)
             ELSE IF standings.t # "array"
             THEN Returned(FALSE, <<Err("standings", "standingsNotArray")>>)
             ELSE LET entries == EntriesErrors(standings.items, 1)
                      errors == CountErrors(standings.items) \o entries.errors
                  IN  IF entries.threw THEN Threw
                      ELSE Returned(Len(errors) = 0, errors)

(***************************************************************************)
(* Inputs of the validator                                                 *)
(***************************************************************************)
\* An entry of the standings array: an object with its properties, or a
\* value that is no object (its properties all read as undefined).
NoFields == [x \in EntryFields |-> JsUndefined]
Entry(fields) == [t |-> "object", f |-> fields]
NonObject(tag) == [t |-> tag, f |-> NoFields]

\* The raw entry of a team with the given record, as the league publishes it.
RawTeam(abbrev, w, l, otl, div, conf) ==
    Entry([teamName |-> JsObj(JsStr("Team " \o abbrev)),
           teamAbbrev |-> JsObj(JsStr(abbrev)),
           wins |-> JsNum(w), losses |-> JsNum(l), otLosses |-> JsNum(otl),
           points |-> JsNum(w * 2 + otl), gamesPlayed |-> JsNum(w + l + otl),
           regulationWins |-> JsNum(w - (w % 3)),
           regulationPlusOtWins |-> JsNum(w - (w % 2)),
           divisionName |-> JsStr(div), conferenceName |-> JsStr(conf)])

\* The division and conference of the i-th team of a league of 4 divisions
\* of 8 teams.
DivisionAt(i) == VALID_DIVISIONS[(((i - 1) \div 8) % 4) + 1]
ConferenceAt(i) == VALID_CONFERENCES[(((i - 1) \div 16) % 2) + 1]

\* The i-th team of a well-formed league snapshot.
LeagueTeam(i) ==
    RawTeam("T" \o ToString(i), 20 + (i % 7), 10 + (i % 5), i % 4,
            DivisionAt(i), ConferenceAt(i))

\* The i-th team of the snapshot the validator's own test accepts: every
\* team in the Atlantic division of the Eastern conference.
AtlanticTeam(i) ==
    RawTeam("T" \o ToString(i), 30, 15, 5, "Atlantic", "Eastern")

\* A payload {standings: [...]}.
Payload(items) ==
    [t |-> "object", truthy |-> TRUE,
     standings |-> [t |-> "array", truthy |-> TRUE, items |-> items]]

\* A payload that is no object, or an object whose standings is no array.
NoStandings == [t |-> "undefined", truthy |-> FALSE, items |-> <<>>]
Primitive(tag, truthy) == [t |-> tag, truthy |-> truthy, standings |-> NoStandings]
WithStandings(tag, truthy) ==
    [t |-> "object", truthy |-> TRUE,
     standings |-> [t |-> tag, truthy |-> truthy, items |-> <<>>]]

LeaguePayload(n) == Payload([i \in 1 .. n |-> LeagueTeam(i)])
AtlanticPayload(n) == Payload([i \in 1 .. n |-> AtlanticTeam(i)])

\* The well-formed league snapshot, and the test's snapshot of 32 teams.
League == LeaguePayload(EXPECTED_TEAM_COUNT)
AllAtlantic == AtlanticPayload(EXPECTED_TEAM_COUNT)

\* payload with the entry at position pos (from 1) replaced
WithEntry(payload, pos, entry) ==
    Payload([payload.standings.items EXCEPT ![pos] = entry])

\* entry with one property replaced
WithField(entry, field, v) == Entry([entry.f EXCEPT ![field] = v])

\* Values an entry's property may hold in a malformed payload.
OverrideValues ==
    {JsUndefined, JsNull, JsNaN, JsInfinity, JsTrue,
     JsNum(-1), JsNum(0), JsNum(1), JsNum(83), JsNum(165),
     JsStr(""), JsStr("30"), JsStr("Atlantic"), JsStr("Western"), JsStr("Northeast"),
     JsObj(JsStr("BOS")), JsObj(JsStr("")), JsObj(JsUndefined), JsObj(JsNum(5))}

\* Values that are no object, as entries of the standings array.
NonObjectEntries ==
    {NonObject("null"), NonObject("undefined"), NonObject("number"),
     NonObject("string"), NonObject("boolean")}

\* Records tried for a team: wins, losses and otLosses at and around the
\* limits, and points, gamesPlayed and regulationWins up to MaxDelta away
\* from the values the record implies.
MaxDelta == 1
StatChoices == {-1, 0, 41, 82, 83}
Deltas == (0 - MaxDelta) .. MaxDelta

StatEntry(entry, w, l, otl, dp, dg, dr) ==
    Entry([entry.f EXCEPT !.wins = JsNum(w), !.losses = JsNum(l),
                          !.otLosses = JsNum(otl),
                          !.points = JsNum(w * 2 + otl + dp),
                          !.gamesPlayed = JsNum(w + l + otl + dg),
                          !.regulationWins = JsNum(w + dr)])

\* Array lengths tried: up to MaxCountDelta away from the expected count.
MaxCountDelta == 1
Counts == {0} \cup ((EXPECTED_TEAM_COUNT - MaxCountDelta) .. (EXPECTED_TEAM_COUNT + MaxCountDelta))

\* Positions (from 1) of the entries that are varied.
Positions == {1, EXPECTED_TEAM_COUNT}

\* Payloads that are no object with a standings array.
ShapeInputs ==
    {Primitive("null", FALSE), Primitive("undefined", FALSE),
     Primitive("number", FALSE), Primitive("number", TRUE),
     Primitive("string", FALSE), Primitive("string", TRUE),
     Primitive("boolean", TRUE), Primitive("object", TRUE),
     WithStandings("undefined", FALSE), WithStandings("null", FALSE),
     WithStandings("number", FALSE), WithStandings("number", TRUE),
     WithStandings("string", TRUE), WithStandings("object", TRUE)}

(***************************************************************************)
(* utils/calculations: the ranking engine                                  *)
(***************************************************************************)
\* enum TiebreakerResult
TEAM_A_WINS == -1
TIE == 0
TEAM_B_WINS == 1

\* Math.round(num / den) for den > 0: the nearest integer, a half goes up.
MathRound(num, den) == (2 * num + den) \div (2 * den)

\* calculatePointPercentage with Math.floor in the place of Math.round
calculatePointPercentageFloor(points, gamesPlayed) ==
    IF gamesPlayed = 0 THEN 0
    ELSE (points * 1000) \div (gamesPlayed * 2)

\* The result is in thousandths: Math.round(percentage * 1000), before the
\* final division by 1000.  For gamesPlayed in 1 .. 83 with points in
\* -1 .. 2 * gamesPlayed + 1, and for every other argument used below, the
\* double percentage * 1000 rounds to the same integer as the exact quotient,
\* so the quotient is computed exactly here.  Far outside the validated range
\* the double can fall on the other side of a half (points 323, gamesPlayed 40).
calculatePointPercentage(points, gamesPlayed) ==
    IF gamesPlayed = 0 THEN 0
    ELSE LET maxPossiblePoints == gamesPlayed * 2
         IN  MathRound(points * 1000, maxPossiblePoints)

\* applyTiebreaker preferring fewer regulation wins
applyTiebreakerFewerWins(teamA, teamB) ==
    IF teamA.gamesPlayed < teamB.gamesPlayed THEN TEAM_A_WINS
    ELSE IF teamA.gamesPlayed > teamB.gamesPlayed THEN TEAM_B_WINS
    ELSE IF teamA.regulationWins < teamB.regulationWins THEN TEAM_A_WINS
    ELSE IF teamA.regulationWins > teamB.regulationWins THEN TEAM_B_WINS
    ELSE TIE

applyTiebreaker(teamA, teamB) ==
    IF teamA.gamesPlayed < teamB.gamesPlayed THEN TEAM_A_WINS
    ELSE IF teamA.gamesPlayed > teamB.gamesPlayed THEN TEAM_B_WINS
    ELSE IF teamA.regulationWins > teamB.regulationWins THEN TEAM_A_WINS
    ELSE IF teamA.regulationWins < teamB.regulationWins THEN TEAM_B_WINS
    ELSE TIE

\* the comparator without the tiebreaker
CompareTeamsNoTiebreak(teamA, teamB) ==
    IF teamA.pointPercentage > teamB.pointPercentage THEN -1
    ELSE IF teamA.pointPercentage < teamB.pointPercentage THEN 1
    ELSE 0

\* The comparator handed to sortedTeams.sort.
CompareTeams(teamA, teamB) ==
    IF teamA.pointPercentage > teamB.pointPercentage THEN -1
    ELSE IF teamA.pointPercentage < teamB.pointPercentage THEN 1
    ELSE applyTiebreaker(teamA, teamB)

\* Array.prototype.sort with that comparator.  The sort is stable: an element
\* goes after every element placed so far that does not compare greater.
InsertSorted(placed, team) ==
    SelectSeq(placed, LAMBDA e : CompareTeams(e, team) <= 0)
        \o <<team>>
        \o SelectSeq(placed, LAMBDA e : CompareTeams(e, team) > 0)

RECURSIVE ArraySortFrom(_, _, _)
ArraySortFrom(arr, k, placed) ==
    IF k > Len(arr) THEN placed
    ELSE ArraySortFrom(arr, k + 1, InsertSorted(placed, arr[k]))

ArraySort(arr) == ArraySortFrom(arr, 1, <<>>)

\* sortTeamsByStandings sorting `teams` itself, without the copy
sortTeamsInPlace(ts) ==
    [value |-> ArraySort(ts), argument |-> ArraySort(ts)]

\* value: the returned array; argument: the array passed in, as it is after
\* the call (the sort works on the copy [...teams]).
sortTeamsByStandings(ts) ==
    LET sortedTeams == ts
    IN  [value |-> ArraySort(sortedTeams), argument |-> ts]

\* The teams the ranking engine is tried on: the fixture of the ordering
\* tests with records that tie on some or all of the three keys.
RankProfiles ==
    { [pointPercentage |-> 625, gamesPlayed |-> 40, regulationWins |-> 15, regulationPlusOtWins |-> 17],
      [pointPercentage |-> 500, gamesPlayed |-> 40, regulationWins |-> 15, regulationPlusOtWins |-> 17],
      [pointPercentage |-> 500, gamesPlayed |-> 39, regulationWins |-> 15, regulationPlusOtWins |-> 17],
      [pointPercentage |-> 500, gamesPlayed |-> 40, regulationWins |-> 16, regulationPlusOtWins |-> 18],
      [pointPercentage |-> 500, gamesPlayed |-> 40, regulationWins |-> 15, regulationPlusOtWins |-> 20],
      [pointPercentage |-> 500, gamesPlayed |-> 39, regulationWins |-> 14, regulationPlusOtWins |-> 16] }

\* createTeam of the ranking tests, with the profile as its overrides.
\* name and abbreviation are JavaScript values, the numbers are integers.
createTeam(id, profile) ==
    [id |-> id, name |-> JsStr("Team " \o ToString(id)),
     abbreviation |-> JsStr("T" \o ToString(id)),
     wins |-> 20, losses |-> 10, otLosses |-> 5, points |-> 45,
     gamesPlayed |-> profile.gamesPlayed,
     pointPercentage |-> profile.pointPercentage,
     regulationWins |-> profile.regulationWins,
     regulationPlusOtWins |-> profile.regulationPlusOtWins,
     division |-> "Atlantic", conference |-> "Eastern",
     isDivisionLeader |-> FALSE, isWildCard |-> FALSE,
     divisionRank |-> 0, conferenceRank |-> 0]

\* Longest array handed to sortTeamsByStandings.
MaxTeams == 3

NoCall == [op |-> "none"]

\* a call calculatePointPercentage(points, gamesPlayed), on the arguments of
\* its tests, on halves (1 of 16, 33 of 80) and beyond the validated range
CallPointPercentage ==
    \E points \in {-1, 0, 1, 2, 33, 50, 81, 164, 165},
       gamesPlayed \in {0, 1, 8, 40, 82, 83} :
        /\ ranked = NoCall
        /\ ranked' = [op |-> "calculatePointPercentage", points |-> points,
                      gamesPlayed |-> gamesPlayed,
                      value |-> calculatePointPercentage(points, gamesPlayed)]
        /\ UNCHANGED <<teams, valVars, buildVars, processVars, projVars, appVars>>

\* a call applyTiebreaker(teams[i], teams[j]), and the call with the two
\* arguments exchanged
CallTiebreaker ==
    \E i \in 1 .. Len(teams), j \in 1 .. Len(teams) :
        /\ ranked = NoCall
        /\ ranked' = [op |-> "applyTiebreaker", teamA |-> teams[i], teamB |-> teams[j],
                      value |-> applyTiebreaker(teams[i], teams[j]),
                      exchanged |-> applyTiebreaker(teams[j], teams[i])]
        /\ UNCHANGED <<teams, valVars, buildVars, processVars, projVars, appVars>>

\* a call sortTeamsByStandings(teams)
CallSort ==
    /\ ranked = NoCall
    /\ LET call == sortTeamsByStandings(teams)
       IN  /\ ranked' = [op |-> "sortTeamsByStandings", input |-> teams,
                         value |-> call.value, again |-> FALSE]
           /\ teams' = call.argument
    /\ UNCHANGED <<valVars, buildVars, processVars, projVars, appVars>>

\* the array a sort returned is sorted again
CallSortAgain ==
    /\ ranked.op = "sortTeamsByStandings"
    /\ ~ranked.again
    /\ LET call == sortTeamsByStandings(ranked.value)
       IN  /\ ranked' = [op |-> "sortTeamsByStandings", input |-> ranked.value,
                         value |-> call.value, again |-> TRUE]
           /\ teams' = call.argument
    /\ UNCHANGED <<valVars, buildVars, processVars, projVars, appVars>>

(***************************************************************************)
(* utils/playoffs and scripts/processStandings: the classifier             *)
(***************************************************************************)
\* The keys of a Map filled by a loop over ts with ts[i][field] as the key:
\* the values of the field in order of first appearance.
MapKeys(ts, field) ==
    LET first == SelectSeq([i \in 1 .. Len(ts) |-> i],
                           LAMBDA i : \A j \in 1 .. (i - 1) : ts[j][field] # ts[i][field])
    IN  [k \in 1 .. Len(first) |-> ts[first[k]][field]]

\* The array the Map holds under a key.
MapGet(ts, field, key) == SelectSeq(ts, LAMBDA team : team[field] = key)

\* Array.prototype.slice(0, n)
SliceTo(arr, n) == SubSeq(arr, 1, IF Len(arr) < n THEN Len(arr) ELSE n)

\* standings.map((entry, index) => ({...})); index counts from 0.
transformToTeams(standings) ==
    [i \in 1 .. Len(standings) |->
        LET entry == standings[i]
            index == i - 1
        IN  [id |-> index + 1,
             name |-> DefaultOf(Get(entry, "teamName")),
             abbreviation |-> DefaultOf(Get(entry, "teamAbbrev")),
             wins |-> Get(entry, "wins").n,
             losses |-> Get(entry, "losses").n,
             otLosses |-> Get(entry, "otLosses").n,
             points |-> Get(entry, "points").n,
             gamesPlayed |-> Get(entry, "gamesPlayed").n,
             pointPercentage |-> 0,
             regulationWins |-> Get(entry, "regulationWins").n,
             regulationPlusOtWins |-> Get(entry, "regulationPlusOtWins").n,
             division |-> Get(entry, "divisionName").s,
             conference |-> Get(entry, "conferenceName").s,
             isDivisionLeader |-> FALSE, isWildCard |-> FALSE,
             divisionRank |-> 0, conferenceRank |-> 0]]

\* teams.map(team => ({...team, pointPercentage: ...}))
WithPercentages(ts) ==
    [i \in 1 .. Len(ts) |->
        [ts[i] EXCEPT !.pointPercentage =
            calculatePointPercentage(ts[i].points, ts[i].gamesPlayed)]]

\* processedTeams after the loop over the Map: the arrays pushed for its
\* keys from the k-th on, one after the other.
RECURSIVE Concat(_, _)
Concat(arrays, k) ==
    IF k > Len(arrays) THEN <<>>
    ELSE arrays[k] \o Concat(arrays, k + 1)

\* identifyDivisionLeaders marking the top 2 of a division
identifyDivisionLeadersTopTwo(ts) ==
    LET Pushed(division) ==
            LET sortedDivisionTeams == sortTeamsByStandings(MapGet(ts, "division", division)).value
            IN  [i \in 1 .. Len(sortedDivisionTeams) |->
                    LET index == i - 1
                    IN  [sortedDivisionTeams[i] EXCEPT !.isDivisionLeader = index < 2,
                                                       !.divisionRank = index + 1]]
        keys == MapKeys(ts, "division")
    IN  Concat([k \in 1 .. Len(keys) |-> Pushed(keys[k])], 1)

identifyDivisionLeaders(ts) ==
    LET Pushed(division) ==
            LET sortedDivisionTeams == sortTeamsByStandings(MapGet(ts, "division", division)).value
            IN  [i \in 1 .. Len(sortedDivisionTeams) |->
                    LET index == i - 1
                    IN  [sortedDivisionTeams[i] EXCEPT !.isDivisionLeader = index < 3,
                                                       !.divisionRank = index + 1]]
        keys == MapKeys(ts, "division")
    IN  Concat([k \in 1 .. Len(keys) |-> Pushed(keys[k])], 1)

\* identifyWildCards without the filter on isDivisionLeader
identifyWildCardsUnfiltered(ts) ==
    LET Pushed(conference) ==
            LET conferenceTeams == MapGet(ts, "conference", conference)
                sortedNonLeaders == sortTeamsByStandings(conferenceTeams).value
                wildCardTeams == SliceTo(sortedNonLeaders, 2)
                wildCardIds == {wildCardTeams[i].id : i \in 1 .. Len(wildCardTeams)}
            IN  [i \in 1 .. Len(conferenceTeams) |->
                    [conferenceTeams[i] EXCEPT !.isWildCard = conferenceTeams[i].id \in wildCardIds]]
        keys == MapKeys(ts, "conference")
    IN  Concat([k \in 1 .. Len(keys) |-> Pushed(keys[k])], 1)

identifyWildCards(ts) ==
    LET Pushed(conference) ==
            LET conferenceTeams == MapGet(ts, "conference", conference)
                nonDivisionLeaders == SelectSeq(conferenceTeams, LAMBDA team : ~team.isDivisionLeader)
                sortedNonLeaders == sortTeamsByStandings(nonDivisionLeaders).value
                wildCardTeams == SliceTo(sortedNonLeaders, 2)
                wildCardIds == {wildCardTeams[i].id : i \in 1 .. Len(wildCardTeams)}
            IN  [i \in 1 .. Len(conferenceTeams) |->
                    [conferenceTeams[i] EXCEPT !.isWildCard = conferenceTeams[i].id \in wildCardIds]]
        keys == MapKeys(ts, "conference")
    IN  Concat([k \in 1 .. Len(keys) |-> Pushed(keys[k])], 1)

\* calculateConferenceRanks counting the ranks from 0
calculateConferenceRanksFromZero(ts) ==
    LET Pushed(conference) ==
            LET sortedTeams == sortTeamsByStandings(MapGet(ts, "conference", conference)).value
            IN  [i \in 1 .. Len(sortedTeams) |->
                    LET index == i - 1
                    IN  [sortedTeams[i] EXCEPT !.conferenceRank = index]]
        keys == MapKeys(ts, "conference")
    IN  Concat([k \in 1 .. Len(keys) |-> Pushed(keys[k])], 1)

calculateConferenceRanks(ts) ==
    LET Pushed(conference) ==
            LET sortedTeams == sortTeamsByStandings(MapGet(ts, "conference", conference)).value
            IN  [i \in 1 .. Len(sortedTeams) |->
                    LET index == i - 1
                    IN  [sortedTeams[i] EXCEPT !.conferenceRank = index + 1]]
        keys == MapKeys(ts, "conference")
    IN  Concat([k \in 1 .. Len(keys) |-> Pushed(keys[k])], 1)

\* organizeConference exposing only the flagged wild cards
organizeConferenceFlaggedOnly(ts, conferenceName) ==
    LET conferenceTeams == SelectSeq(ts, LAMBDA team : team.conference = conferenceName)
        names == {conferenceTeams[i].division : i \in 1 .. Len(conferenceTeams)}
        wildCardStandings == SelectSeq(conferenceTeams, LAMBDA team : team.isWildCard)
    IN  [divisions |-> [divisionName \in names |->
                          sortTeamsByStandings(MapGet(conferenceTeams, "division", divisionName)).value],
         wildCards |-> sortTeamsByStandings(wildCardStandings).value]

\* divisions is the object keyed by division name; the order of its keys is
\* not kept.
organizeConference(ts, conferenceName) ==
    LET conferenceTeams == SelectSeq(ts, LAMBDA team : team.conference = conferenceName)
        names == {conferenceTeams[i].division : i \in 1 .. Len(conferenceTeams)}
        wildCardStandings == SelectSeq(conferenceTeams, LAMBDA team : ~team.isDivisionLeader)
    IN  [divisions |-> [divisionName \in names |->
                          sortTeamsByStandings(MapGet(conferenceTeams, "division", divisionName)).value],
         wildCards |-> sortTeamsByStandings(wildCardStandings).value]

\* A call of a classifier function.  value: the array (or the conference
\* standings) returned; argument: the array passed in, as it is after the
\* call.  The functions push references of the teams into the arrays of a
\* Map, hand those arrays to sortTeamsByStandings, and push object spreads
\* ({...team, flag}) into a new array: nothing is written to `teams` or to
\* a team of it.
identifyDivisionLeadersCall(ts) ==
    [value |-> identifyDivisionLeaders(ts), argument |-> ts]

\* identifyWildCards assigning team.isWildCard on the teams it was handed
identifyWildCardsCallInPlace(ts) ==
    [value |-> identifyWildCards(ts),
     argument |-> [i \in 1 .. Len(ts) |->
                     [ts[i] EXCEPT !.isWildCard =
                         \E k \in 1 .. Len(ts) :
                             /\ identifyWildCards(ts)[k].id = ts[i].id
                             /\ identifyWildCards(ts)[k].isWildCard]]]

identifyWildCardsCall(ts) ==
    [value |-> identifyWildCards(ts), argument |-> ts]

calculateConferenceRanksCall(ts) ==
    [value |-> calculateConferenceRanks(ts), argument |-> ts]

\* teams.filter(...) returns a new array; the division arrays and
\* wildCardStandings are new arrays of references, sorted on copies.
organizeConferenceCall(ts, conferenceName) ==
    [value |-> organizeConference(ts, conferenceName), argument |-> ts]

\* Records of the teams processStandings is tried on: wins, losses, otLosses.
\* The second and third have the same pointPercentage, the second in fewer
\* games; two teams with the same record tie on every key.
ProcessProfiles ==
    { <<2, 1, 0>>, <<1, 1, 0>>, <<2, 2, 2>> }

\* Where the league puts the i-th team: one division; two conferences in
\* turn; two divisions of one conference; one division name used in both
\* conferences (the validator does not tie a division to a conference).
\* "interleaved" puts the teams in turn into the two divisions of the
\* Eastern conference; it is used for the wide snapshots below.
LayoutDivision(layout, i) ==
    CASE layout = "one" -> "Atlantic"
      [] layout = "alternate" -> IF i % 2 = 1 THEN "Atlantic" ELSE "Central"
      [] layout = "mixed" -> IF i % 3 = 0 THEN "Metropolitan" ELSE "Atlantic"
      [] layout = "spanning" -> "Atlantic"
      [] layout = "interleaved" -> IF i % 2 = 1 THEN "Atlantic" ELSE "Metropolitan"
LayoutConference(layout, i) ==
    CASE layout = "one" -> "Eastern"
      [] layout = "alternate" -> IF i % 2 = 1 THEN "Eastern" ELSE "Western"
      [] layout = "mixed" -> "Eastern"
      [] layout = "spanning" -> IF i % 2 = 1 THEN "Eastern" ELSE "Western"
      [] layout = "interleaved" -> "Eastern"

\* Records of the wide snapshots: two divisions with non-leaders each, so
\* that non-leaders of different divisions tie.
WideProfiles == { <<2, 1, 0>>, <<1, 1, 0>> }

\* Most teams in a snapshot handed to processStandings.
MaxLeague == 6

\* The snapshot of n teams with the given records in the given layout.
RawStandings(n, choice, layout) ==
    [i \in 1 .. n |->
        RawTeam("T" \o ToString(i), choice[i][1], choice[i][2], choice[i][3],
                LayoutDivision(layout, i), LayoutConference(layout, i))]

NoDocumentYet == [returned |-> FALSE]

\* let teams = transformToTeams(rawData.standings)
ProcessTransform ==
    /\ stage = "start"
    /\ teams' = transformToTeams(raw)
    /\ stage' = "transformed"
    /\ UNCHANGED <<raw, doc, ranked, valVars, buildVars, projVars, appVars>>

\* teams = teams.map(...pointPercentage...)
ProcessPercentages ==
    /\ stage = "transformed"
    /\ teams' = WithPercentages(teams)
    /\ stage' = "percentages"
    /\ UNCHANGED <<raw, doc, ranked, valVars, buildVars, projVars, appVars>>

\* teams = identifyDivisionLeaders(teams)
ProcessDivisionLeaders ==
    /\ stage = "percentages"
    /\ LET call == identifyDivisionLeadersCall(teams)
       IN  /\ teams' = call.value
           /\ ranked' = [op |-> "identifyDivisionLeaders", input |-> teams,
                         argument |-> call.argument]
    /\ stage' = "leaders"
    /\ UNCHANGED <<raw, doc, valVars, buildVars, projVars, appVars>>

\* teams = identifyWildCards(teams)
ProcessWildCards ==
    /\ stage = "leaders"
    /\ LET call == identifyWildCardsCall(teams)
       IN  /\ teams' = call.value
           /\ ranked' = [op |-> "identifyWildCards", input |-> teams,
                         argument |-> call.argument]
    /\ stage' = "wildCards"
    /\ UNCHANGED <<raw, doc, valVars, buildVars, projVars, appVars>>

\* teams = calculateConferenceRanks(teams)
ProcessConferenceRanks ==
    /\ stage = "wildCards"
    /\ LET call == calculateConferenceRanksCall(teams)
       IN  /\ teams' = call.value
           /\ ranked' = [op |-> "calculateConferenceRanks", input |-> teams,
                         argument |-> call.argument]
    /\ stage' = "ranks"
    /\ UNCHANGED <<raw, doc, valVars, buildVars, projVars, appVars>>

\* organizeConference twice, the timestamp, and the return
ProcessReturn ==
    /\ stage = "ranks"
    /\ LET eastern == organizeConferenceCall(teams, "Eastern")
           western == organizeConferenceCall(eastern.argument, "Western")
       IN  /\ doc' = [returned |-> TRUE,
                      eastern |-> eastern.value,
                      western |-> western.value,
                      lastUpdated |-> now]
           /\ teams' = western.argument
           /\ ranked' = [op |-> "organizeConference", input |-> teams,
                         argument |-> western.argument]
    /\ stage' = "returned"
    /\ UNCHANGED <<raw, valVars, buildVars, projVars, appVars>>

(***************************************************************************)
(* utils/playoffCalculator: the projector                                  *)
(***************************************************************************)
TOTAL_SEASON_GAMES == 82
POINTS_PER_GAME == 2

\* Math.max
MathMax(a, b) == IF a > b THEN a ELSE b

\* A quotient kept as its two terms; null when not computed.
NoPercentage == [isNull |-> TRUE, num |-> 0, den |-> 1]
Percentage(num, den) == [isNull |-> FALSE, num |-> num, den |-> den]

\* calculatePlayoffStats without Math.max(0, ...)
calculatePlayoffStatsNoClamp(team, playoffThreshold) ==
    LET remainingGames == TOTAL_SEASON_GAMES - team.gamesPlayed
        remainingPoints == remainingGames * POINTS_PER_GAME
        maxPossiblePoints == team.points + remainingPoints
        pointsGap == playoffThreshold - team.points
        playoffStatus ==
            IF team.points >= playoffThreshold THEN "clinched"
            ELSE IF maxPossiblePoints < playoffThreshold THEN "eliminated"
            ELSE "competing"
    IN  [remainingGames |-> remainingGames, remainingPoints |-> remainingPoints,
         maxPossiblePoints |-> maxPossiblePoints, pointsGap |-> pointsGap,
         requiredPointsPercentage |->
             IF playoffStatus = "competing" /\ remainingPoints > 0
             THEN Percentage(pointsGap * 100, remainingPoints) ELSE NoPercentage,
         playoffStatus |-> playoffStatus]

\* calculatePlayoffStats without the eliminated branch
calculatePlayoffStatsNoEliminated(team, playoffThreshold) ==
    LET remainingGames == MathMax(0, TOTAL_SEASON_GAMES - team.gamesPlayed)
        remainingPoints == remainingGames * POINTS_PER_GAME
        maxPossiblePoints == team.points + remainingPoints
        pointsGap == playoffThreshold - team.points
        playoffStatus ==
            IF team.points >= playoffThreshold THEN "clinched" ELSE "competing"
    IN  [remainingGames |-> remainingGames, remainingPoints |-> remainingPoints,
         maxPossiblePoints |-> maxPossiblePoints, pointsGap |-> pointsGap,
         requiredPointsPercentage |->
             IF playoffStatus = "competing" /\ remainingPoints > 0
             THEN Percentage(pointsGap * 100, remainingPoints) ELSE NoPercentage,
         playoffStatus |-> playoffStatus]

\* requiredPointsPercentage is (pointsGap / remainingPoints) * 100, kept as
\* the quotient of pointsGap * 100 and remainingPoints.
calculatePlayoffStats(team, playoffThreshold) ==
    LET remainingGames == MathMax(0, TOTAL_SEASON_GAMES - team.gamesPlayed)
        remainingPoints == remainingGames * POINTS_PER_GAME
        maxPossiblePoints == team.points + remainingPoints
        pointsGap == playoffThreshold - team.points
        playoffStatus ==
            IF team.points >= playoffThreshold THEN "clinched"
            ELSE IF maxPossiblePoints < playoffThreshold THEN "eliminated"
            ELSE "competing"
    IN  [remainingGames |-> remainingGames, remainingPoints |-> remainingPoints,
         maxPossiblePoints |-> maxPossiblePoints, pointsGap |-> pointsGap,
         requiredPointsPercentage |->
             IF playoffStatus = "competing" /\ remainingPoints > 0
             THEN Percentage(pointsGap * 100, remainingPoints) ELSE NoPercentage,
         playoffStatus |-> playoffStatus]

\* createTestTeam({points, gamesPlayed}) of the projector's tests.
createTestTeam(points, gamesPlayed) ==
    [id |-> 1, name |-> JsStr("Test Team"), abbreviation |-> JsStr("TST"),
     wins |-> 20, losses |-> 10, otLosses |-> 5, points |-> points,
     gamesPlayed |-> gamesPlayed, pointPercentage |-> 643,
     regulationWins |-> 15, regulationPlusOtWins |-> 18,
     division |-> "Atlantic", conference |-> "Eastern",
     isDivisionLeader |-> FALSE, isWildCard |-> FALSE,
     divisionRank |-> 0, conferenceRank |-> 0]

NoProjection == [called |-> FALSE]

\* a call calculatePlayoffStats(team, playoffThreshold), on the tests'
\* values, the ends of the season and of the threshold range, and values
\* beyond them
Project ==
    \E points \in {0, 45, 60, 80, 94, 95, 96, 100, 119, 120, 164},
       gamesPlayed \in {0, 35, 50, 70, 75, 81, 82, 83, 90},
       playoffThreshold \in {0, 79, 80, 95, 96, 100, 120, 121, 165} :
        /\ ~proj.called
        /\ proj' = [called |-> TRUE, team |-> createTestTeam(points, gamesPlayed),
                    playoffThreshold |-> playoffThreshold,
                    value |-> calculatePlayoffStats(createTestTeam(points, gamesPlayed),
                                                    playoffThreshold)]
        /\ UNCHANGED <<valVars, buildVars, rankVars, processVars, appVars>>

(***************************************************************************)
(* app.ts: the playoff calculator of the page                              *)
(*                                                                         *)
(* A string of the page (the value of the threshold input, the value       *)
(* sessionStorage holds under 'playoffThreshold') is the sequence of its   *)
(* characters.  The DOM is the record `ui`; the callbacks handed to        *)
(* setTimeout and requestAnimationFrame wait in `timers`.  The timers of   *)
(* announceToScreenReader write the text of #sr-announcer only and are     *)
(* left out, as is the toggle button, which shows and hides the form.      *)
(***************************************************************************)
DigitChars == <<"0", "1", "2", "3", "4", "5", "6", "7", "8", "9">>
IsDigit(c) == \E d \in 1 .. 10 : DigitChars[d] = c
DigitOf(c) == (CHOOSE d \in 1 .. 10 : DigitChars[d] = c) - 1

\* value.trim() === ''
TrimIsEmpty(value) == \A i \in 1 .. Len(value) : value[i] = " "

\* The number the run of digits of value from position k on reads as, after
\* the digits that gave acc.
RECURSIVE DigitsValue(_, _, _)
DigitsValue(value, k, acc) ==
    IF k > Len(value) \/ ~IsDigit(value[k]) THEN acc
    ELSE DigitsValue(value, k + 1, acc * 10 + DigitOf(value[k]))

\* parseInt(value, 10): white space in front is skipped, a sign is read,
\* then the longest run of digits; what follows is ignored, and without a
\* digit the result is NaN.
parseInt(value) ==
    LET first == CHOOSE k \in 1 .. (Len(value) + 1) :
                    /\ (k <= Len(value)) => (value[k] # " ")
                    /\ \A j \in 1 .. (k - 1) : value[j] = " "
        signed == first <= Len(value) /\ value[first] \in {"-", "+"}
        start == IF signed THEN first + 1 ELSE first
    IN  IF start > Len(value) \/ ~IsDigit(value[start]) THEN JsNaN
        ELSE IF signed /\ value[first] = "-"
             THEN JsNum(0 - DigitsValue(value, start, 0))
             ELSE JsNum(DigitsValue(value, start, 0))

\* threshold.toString() for a threshold that is no less than 0
NumberToText(n) == [i \in 1 .. Len(Digits(n)) |-> DigitChars[Digits(n)[i] + 1]]

\* validateThreshold without the upper limit
validateThresholdNoUpperLimit(value) ==
    IF value = <<>> \/ TrimIsEmpty(value)
    THEN [valid |-> FALSE, error |-> "Please enter a threshold value"]
    ELSE LET numValue == parseInt(value)
         IN  IF numValue.k = "nan"
             THEN [valid |-> FALSE, error |-> "Please enter a valid number"]
             ELSE IF numValue.n < 80
                  THEN [valid |-> FALSE,
                        error |-> "Threshold must be between 80 and 120 points"]
                  ELSE [valid |-> TRUE, error |-> ""]

validateThreshold(value) ==
    IF value = <<>> \/ TrimIsEmpty(value)
    THEN [valid |-> FALSE, error |-> "Please enter a threshold value"]
    ELSE LET numValue == parseInt(value)
         IN  IF numValue.k = "nan"
             THEN [valid |-> FALSE, error |-> "Please enter a valid number"]
             ELSE IF numValue.n < 80 \/ numValue.n > 120
                  THEN [valid |-> FALSE,
                        error |-> "Threshold must be between 80 and 120 points"]
                  ELSE [valid |-> TRUE, error |-> ""]

\* sessionStorage under 'playoffThreshold': getItem gives null (has is
\* false) or the string; byApp tells that the page wrote it with setItem.
NoItem == [has |-> FALSE, text |-> <<>>, byApp |-> FALSE]
Item(text, byApp) == [has |-> TRUE, text |-> text, byApp |-> byApp]

\* The teams of the rows of the page: the three teams of the projector's
\* end-to-end examples.
PageTeams ==
    <<createTestTeam(95, 70), createTestTeam(60, 75), createTestTeam(80, 70)>>

\* The 'Req. Pts %' cell of a row: the element (0 when the row has none),
\* its `visible` class, and the threshold and the status it was filled for.
NoCell == [id |-> 0, visible |-> FALSE, threshold |-> JsNaN, status |-> ""]

\* updateTeamRowWithCalculator(row, team, threshold) for the row r of the
\* page; a new element is created when the row has no cell, and gets its
\* `visible` class in an animation frame.
updateTeamRowWithCalculator(rows, r, threshold, nextId) ==
    LET stats == calculatePlayoffStats(PageTeams[r], threshold.n)
        isNewCell == rows[r].id = 0
    IN  [id |-> IF isNewCell THEN nextId + r ELSE rows[r].id,
         visible |-> ~isNewCell,
         threshold |-> threshold,
         status |-> stats.playoffStatus]

\* createTeamRow(team) for the row r: the row has a cell when the stored
\* threshold reads as a number from 80 to 120.
createTeamRow(r, storage) ==
    LET savedThreshold == storage.text
        threshold == parseInt(savedThreshold)
    IN  IF storage.has /\ savedThreshold # <<>>
           /\ threshold.k # "nan" /\ threshold.n >= 80 /\ threshold.n <= 120
        THEN updateTeamRowWithCalculator([x \in 1 .. Len(PageTeams) |-> NoCell],
                                         r, threshold, 0)
        ELSE NoCell

\* The page before the script runs: the document as served, no callback
\* waiting.  event: the last event handled, and how many there were.
NoPage ==
    [ui |-> [loaded |-> FALSE, value |-> <<>>, storage |-> NoItem,
             clearShown |-> FALSE, errorShown |-> FALSE,
             headerDisplay |-> "", headerVisible |-> FALSE, tableActive |-> FALSE,
             rows |-> [r \in 1 .. Len(PageTeams) |-> NoCell], nextId |-> 0,
             event |-> [n |-> 0, kind |-> "", text |-> <<>>]],
     timers |-> [timeouts |-> <<>>, frames |-> [header |-> FALSE, cells |-> {}]]]

\* showCalculatorColumns(): display is set at once, the `visible` class in
\* an animation frame.
showCalculatorColumns(p) ==
    [p EXCEPT !.ui.headerDisplay = "table-cell",
              !.ui.tableActive = TRUE,
              !.timers.frames.header = TRUE]

\* updateAllPlayoffCalculations(threshold): every row of every table
updateAllPlayoffCalculations(p, threshold) ==
    LET rows == p.ui.rows
        new == {r \in DOMAIN rows : rows[r].id = 0}
    IN  [p EXCEPT !.ui.rows = [r \in DOMAIN rows |->
                                 updateTeamRowWithCalculator(rows, r, threshold, p.ui.nextId)],
                  !.ui.nextId = IF new = {} THEN @ ELSE @ + Len(PageTeams),
                  !.timers.frames.cells = @ \cup {p.ui.nextId + r : r \in new}]

\* hideCalculatorColumns(): the `visible` classes go at once; the callback
\* handed to setTimeout keeps the cells found now.
hideCalculatorColumns(p) ==
    LET calculatorCells == {p.ui.rows[r].id : r \in DOMAIN p.ui.rows} \ {0}
    IN  [p EXCEPT !.ui.headerVisible = FALSE,
                  !.ui.rows = [r \in DOMAIN @ |-> [@[r] EXCEPT !.visible = FALSE]],
                  !.timers.timeouts = Append(@, calculatorCells)]

\* The valid branch of the input and the Enter handlers.
ApplyThreshold(p, value) ==
    LET threshold == parseInt(value)
        saved == [p EXCEPT !.ui.storage = Item(NumberToText(threshold.n), TRUE),
                           !.ui.errorShown = FALSE,
                           !.ui.clearShown = TRUE]
    IN  updateAllPlayoffCalculations(showCalculatorColumns(saved), threshold)

\* handleThresholdChange(event), the input holding `value`
handleThresholdChange(p, value) ==
    LET validation == validateThreshold(value)
        q == [p EXCEPT !.ui.value = value]
    IN  IF ~validation.valid THEN [q EXCEPT !.ui.errorShown = TRUE]
        ELSE ApplyThreshold(q, value)

\* the keydown listener of the input, for the Enter key
handleEnterKey(p) ==
    LET value == p.ui.value
        validation == validateThreshold(value)
    IN  IF validation.valid THEN ApplyThreshold(p, value)
        ELSE [p EXCEPT !.ui.errorShown = TRUE]

\* handleClearThreshold()
handleClearThreshold(p) ==
    LET cleared == [p EXCEPT !.ui.value = <<>>,
                             !.ui.storage = NoItem,
                             !.ui.clearShown = FALSE]
    IN  [hideCalculatorColumns(cleared) EXCEPT !.ui.errorShown = FALSE]

\* initializePlayoffCalculator(), the elements of the form being there
initializePlayoffCalculator(p) ==
    LET savedThreshold == p.ui.storage.text
        validation == validateThreshold(savedThreshold)
    IN  IF ~(p.ui.storage.has /\ savedThreshold # <<>>) THEN p
        ELSE IF validation.valid
             THEN updateAllPlayoffCalculations(
                      showCalculatorColumns([p EXCEPT !.ui.value = savedThreshold,
                                                      !.ui.clearShown = TRUE]),
                      parseInt(savedThreshold))
             ELSE [p EXCEPT !.ui.storage = NoItem, !.ui.value = <<>>]

\* renderStandings() on the document as served, with sessionStorage as it
\* is: every row is created, with its cell when a threshold is stored.
renderStandings(storage) ==
    LET rows == [r \in 1 .. Len(PageTeams) |-> createTeamRow(r, storage)]
        new == {rows[r].id : r \in DOMAIN rows} \ {0}
    IN  [NoPage EXCEPT !.ui.loaded = TRUE,
                       !.ui.storage = storage,
                       !.ui.rows = rows,
                       !.ui.nextId = IF new = {} THEN 0 ELSE Len(PageTeams),
                       !.timers.frames.cells = new]

\* What the user may type or paste, and what sessionStorage may hold when
\* the page opens.
ThresholdTexts ==
    { <<>>, <<" ">>, <<"9">>, <<"9", "5">>, <<"8", "0">>, <<"7", "9">>,
      <<"1", "2", "0">>, <<"1", "2", "1">>, <<"9", "5", ".", "7">>,
      <<"9", "5", "a">>, <<"a", "b", "c">>, <<" ", "1", "0", "0">>,
      <<"-", "9", "5">> }

\* Number of events of the page followed (loads, inputs, keys, clicks).
MaxEvents == 3

\* The event handled last.
Handled(p, kind, text) ==
    [p EXCEPT !.ui.event = [n |-> ui.event.n + 1, kind |-> kind, text |-> text]]

\* the document is loaded, or loaded again: renderStandings() and
\* initializePlayoffCalculator() run; the callbacks of the page before are
\* gone with it
PageLoad ==
    /\ ui.event.n < MaxEvents
    /\ LET p == Handled(initializePlayoffCalculator(renderStandings(ui.storage)),
                        "load", ui.storage.text)
       IN  ui' = p.ui /\ timers' = p.timers
    /\ UNCHANGED <<valVars, buildVars, rankVars, processVars, projVars>>

\* an input event of the threshold input
InputEvent ==
    /\ ui.loaded /\ ui.event.n < MaxEvents
    /\ \E value \in ThresholdTexts :
          LET p == Handled(handleThresholdChange([ui |-> ui, timers |-> timers], value),
                           "input", value)
          IN  ui' = p.ui /\ timers' = p.timers
    /\ UNCHANGED <<valVars, buildVars, rankVars, processVars, projVars>>

\* the Enter key in the threshold input
EnterKey ==
    /\ ui.loaded /\ ui.event.n < MaxEvents
    /\ LET p == Handled(handleEnterKey([ui |-> ui, timers |-> timers]),
                        "enter", ui.value)
       IN  ui' = p.ui /\ timers' = p.timers
    /\ UNCHANGED <<valVars, buildVars, rankVars, processVars, projVars>>

\* a click on the clear button, or Enter or Space on it; the button can be
\* used while it is displayed
ClearClick ==
    /\ ui.loaded /\ ui.clearShown /\ ui.event.n < MaxEvents
    /\ LET p == Handled(handleClearThreshold([ui |-> ui, timers |-> timers]),
                        "clear", <<>>)
       IN  ui' = p.ui /\ timers' = p.timers
    /\ UNCHANGED <<valVars, buildVars, rankVars, processVars, projVars>>

\* an animation frame: every callback handed to requestAnimationFrame so
\* far adds the `visible` class to its header or cell
AnimationFrame ==
    /\ timers.frames # [header |-> FALSE, cells |-> {}]
    /\ ui' = [ui EXCEPT !.headerVisible = @ \/ timers.frames.header,
                        !.rows = [r \in DOMAIN @ |->
                                    [@[r] EXCEPT !.visible =
                                        @ \/ ui.rows[r].id \in timers.frames.cells]]]
    /\ timers' = [timers EXCEPT !.frames = [header |-> FALSE, cells |-> {}]]
    /\ UNCHANGED <<valVars, buildVars, rankVars, processVars, projVars>>

\* the oldest callback of hideCalculatorColumns runs, 250 ms after the
\* call: the headers are hidden, the cells it kept are removed from their
\* rows, and the tables lose `calculator-active`
HideTimerFires ==
    /\ timers.timeouts # <<>>
    /\ LET calculatorCells == Head(timers.timeouts)
       IN  ui' = [ui EXCEPT !.headerDisplay = "none",
                            !.tableActive = FALSE,
                            !.rows = [r \in DOMAIN @ |->
                                        IF @[r].id \in calculatorCells THEN NoCell
                                        ELSE @[r]]]
    /\ timers' = [timers EXCEPT !.timeouts = Tail(@)]
    /\ UNCHANGED <<valVars, buildVars, rankVars, processVars, projVars>>

\* Nothing of the page has run.
AppQuiet == ui = NoPage.ui /\ timers = NoPage.timers

\* Nothing of the ranking engine, the classifier or the projector has run.
StandingsQuiet ==
    /\ teams = <<>> /\ ranked = NoCall
    /\ raw = <<>> /\ stage = "idle" /\ doc = NoDocumentYet
    /\ proj = NoProjection /\ AppQuiet

(***************************************************************************)
(* scripts/fetchData: fetchNHLData, cacheResponse, loadCachedData          *)
(***************************************************************************)
MAX_RETRIES == 3
INITIAL_RETRY_DELAY == 1000

\* Number of build runs followed.
MaxBuilds == 2

\* The bodies the API may answer with, by name, and the documents a cache
\* file may hold besides.
FetchBodies == {"league", "atlantic", "short", "nullEntry"}
Snapshot(name) ==
    CASE name = "league" -> League
      [] name = "atlantic" -> AllAtlantic
      [] name = "short" -> AtlanticPayload(EXPECTED_TEAM_COUNT - 1)
      [] name = "nullEntry" -> WithEntry(League, 1, NonObject("null"))
      [] name = "noStandings" -> WithStandings("undefined", FALSE)
      [] OTHER -> Primitive("null", FALSE)

\* validateNHLApiResponse applied to each of these documents.
SnapshotNames == FetchBodies \cup {"noStandings", "null"}
Verdicts == [name \in SnapshotNames |-> validateNHLApiResponse(Snapshot(name))]
Validated(name) == Verdicts[name]

\* Messages of the errors an attempt can end with.
NetworkError == "fetch failed"
HttpError(status) == "HTTP error! status: " \o ToString(status)
ParseError == "Unexpected token < in JSON at position 0"
ValidationFailed == "Invalid API response: validation failed"
TypeErrorMessage == "Cannot read properties of null (reading 'teamName')"

\* The content of CACHE_FILE: absent, a complete {data, timestamp} document,
\* or a truncated one that JSON.parse rejects.
Absent == [kind |-> "absent", data |-> "", timestamp |-> 0]
Truncated == [kind |-> "partial", data |-> "", timestamp |-> 0]
CacheEntry(data, timestamp) == [kind |-> "entry", data |-> data, timestamp |-> timestamp]

\* The cache write of the current call: not begun, file opened (truncated),
\* completed, or failed; with the content before it and the entry written.
NoWrite == [state |-> "none", before |-> Absent, entry |-> Absent]

\* What fetchNHLData returned, or the error it threw.
NoResult ==
    [kind |-> "none", data |-> "", isStale |-> FALSE, hasTimestamp |-> FALSE,
     cacheTimestamp |-> 0, message |-> ""]
FreshResultStale(data) ==
    [kind |-> "ok", data |-> data, isStale |-> TRUE, hasTimestamp |-> FALSE,
     cacheTimestamp |-> 0, message |-> ""]
FreshResult(data) ==
    [kind |-> "ok", data |-> data, isStale |-> FALSE, hasTimestamp |-> FALSE,
     cacheTimestamp |-> 0, message |-> ""]
CachedResultNow(entry) ==
    [kind |-> "ok", data |-> entry.data, isStale |-> TRUE, hasTimestamp |-> TRUE,
     cacheTimestamp |-> now, message |-> ""]
CachedResult(entry) ==
    [kind |-> "ok", data |-> entry.data, isStale |-> TRUE, hasTimestamp |-> TRUE,
     cacheTimestamp |-> entry.timestamp, message |-> ""]
FatalError(last) ==
    [kind |-> "threw", data |-> "", isStale |-> FALSE, hasTimestamp |-> FALSE,
     cacheTimestamp |-> 0,
     message |-> "Failed to fetch NHL data after " \o ToString(MAX_RETRIES)
                 \o " attempts and no cached data available. Last error: " \o last]

\* An entry of the history of a call.
Event(e, n, x) == [e |-> e, n |-> n, x |-> x, at |-> now]

\* RetryDelay with the exponent off by one
RetryDelayDouble(n) == INITIAL_RETRY_DELAY * 2 ^ n

\* INITIAL_RETRY_DELAY * Math.pow(2, attempt - 1)
RetryDelay(n) == INITIAL_RETRY_DELAY * 2 ^ (n - 1)

\* CaughtError keeping the first error of the call
CaughtErrorFirst(previous, message) == IF previous = "" THEN message ELSE previous

\* lastError = error instanceof Error ? error : new Error(String(error))
CaughtError(previous, message) == message

\* The catch block of the retry loop: the attempt failed with `message`.
AttemptFailed(message) ==
    /\ lastError' = CaughtError(lastError, message)
    /\ IF attempt < MAX_RETRIES
       THEN /\ delay' = RetryDelay(attempt)
            /\ log' = log \o <<Event("attempt", attempt, ""), Event("fail", attempt, message),
                               Event("wait", RetryDelay(attempt), "")>>
            /\ pc' = "sleep"
       ELSE /\ delay' = 0
            /\ log' = log \o <<Event("attempt", attempt, ""), Event("fail", attempt, message)>>
            /\ pc' = "fallback"

\* fetch(NHL_API_URL) rejects
AttemptNetworkError ==
    /\ pc = "attempt"
    /\ AttemptFailed(NetworkError)
    /\ UNCHANGED <<valVars, standingsVars, attempt, fetched, now, cacheDir, cache, writing,
                   fetchResult, calls, site, exitCode, builds>>

\* the response is not ok
AttemptHttpError ==
    /\ pc = "attempt"
    /\ \E status \in {404, 503} : AttemptFailed(HttpError(status))
    /\ UNCHANGED <<valVars, standingsVars, attempt, fetched, now, cacheDir, cache, writing,
                   fetchResult, calls, site, exitCode, builds>>

\* response.json() rejects
AttemptParseError ==
    /\ pc = "attempt"
    /\ AttemptFailed(ParseError)
    /\ UNCHANGED <<valVars, standingsVars, attempt, fetched, now, cacheDir, cache, writing,
                   fetchResult, calls, site, exitCode, builds>>

\* AttemptInvalid going on to cacheResponse with the rejected body
AttemptInvalidCached ==
    /\ pc = "attempt"
    /\ \E body \in FetchBodies :
          LET validationResult == Validated(body)
          IN  /\ validationResult.threw \/ ~validationResult.isValid
              /\ fetched' = body
              /\ log' = log \o <<Event("attempt", attempt, ""), Event("ok", attempt, body)>>
    /\ pc' = "cache"
    /\ UNCHANGED <<valVars, standingsVars, attempt, lastError, delay, now, cacheDir, cache, writing,
                   fetchResult, calls, site, exitCode, builds>>

\* the body is read and the validator rejects it, or throws on it
AttemptInvalid ==
    /\ pc = "attempt"
    /\ \E body \in FetchBodies :
          LET validationResult == Validated(body)
          IN  /\ validationResult.threw \/ ~validationResult.isValid
              /\ AttemptFailed(IF validationResult.threw THEN TypeErrorMessage
                               ELSE ValidationFailed)
    /\ UNCHANGED <<valVars, standingsVars, attempt, fetched, now, cacheDir, cache, writing,
                   fetchResult, calls, site, exitCode, builds>>

\* the body is read and passes validation: cacheResponse(data) is entered
AttemptValid ==
    /\ pc = "attempt"
    /\ \E body \in FetchBodies :
          LET validationResult == Validated(body)
          IN  /\ ~validationResult.threw /\ validationResult.isValid
              /\ fetched' = body
              /\ log' = log \o <<Event("attempt", attempt, ""), Event("ok", attempt, body)>>
    /\ pc' = "cache"
    /\ UNCHANGED <<valVars, standingsVars, attempt, lastError, delay, now, cacheDir, cache, writing,
                   fetchResult, calls, site, exitCode, builds>>

\* sleep whose promise is never resolved (setTimeout without the callback):
\* the wait does not end
SleepNeverResolves ==
    /\ pc = "sleep"
    /\ delay < 0
    /\ UNCHANGED vars

\* await sleep(delay) ends; the loop goes to the next attempt
SleepDone ==
    /\ pc = "sleep"
    /\ now' = now + delay
    /\ attempt' = attempt + 1
    /\ delay' = 0
    /\ pc' = "attempt"
    /\ UNCHANGED <<valVars, standingsVars, lastError, fetched, log, cacheDir, cache, writing,
                   fetchResult, calls, site, exitCode, builds>>

\* fetchNHLData returns the fresh payload
ReturnFresh ==
    /\ fetchResult' = FreshResult(fetched)
    /\ pc' = "returned"

\* cacheResponse: mkdirSync throws; the catch logs it
CacheMkdirFails ==
    /\ pc = "cache" /\ ~cacheDir
    /\ writing' = [state |-> "failed", before |-> cache, entry |-> CacheEntry(fetched, now)]
    /\ ReturnFresh
    /\ UNCHANGED <<valVars, standingsVars, attempt, lastError, fetched, delay, log, now, cacheDir,
                   cache, calls, site, exitCode, builds>>

\* cacheResponse: writeFileSync cannot open the file; the catch logs it
CacheOpenFails ==
    /\ pc = "cache"
    /\ cacheDir' = TRUE
    /\ writing' = [state |-> "failed", before |-> cache, entry |-> CacheEntry(fetched, now)]
    /\ ReturnFresh
    /\ UNCHANGED <<valVars, standingsVars, attempt, lastError, fetched, delay, log, now,
                   cache, calls, site, exitCode, builds>>

\* cacheResponse: writeFileSync opens CACHE_FILE for writing, which truncates it
CacheWriteOpens ==
    /\ pc = "cache"
    /\ cacheDir' = TRUE
    /\ writing' = [state |-> "open", before |-> cache, entry |-> CacheEntry(fetched, now)]
    /\ cache' = Truncated
    /\ pc' = "writing"
    /\ UNCHANGED <<valVars, standingsVars, attempt, lastError, fetched, delay, log, now,
                   fetchResult, calls, site, exitCode, builds>>

\* cacheResponse: writeFileSync writes the whole document
CacheWriteCompletes ==
    /\ pc = "writing"
    /\ cache' = writing.entry
    /\ writing' = [writing EXCEPT !.state = "done"]
    /\ ReturnFresh
    /\ UNCHANGED <<valVars, standingsVars, attempt, lastError, fetched, delay, log, now, cacheDir,
                   calls, site, exitCode, builds>>

\* CacheWriteFails without the try/catch of cacheResponse: the error reaches
\* the catch block of the retry loop
CacheWriteFailsThrows ==
    /\ pc = "writing"
    /\ writing' = [writing EXCEPT !.state = "failed"]
    /\ AttemptFailed("ENOSPC: no space left on device, write")
    /\ UNCHANGED <<valVars, standingsVars, attempt, fetched, now, cacheDir, cache,
                   fetchResult, calls, site, exitCode, builds>>

\* cacheResponse: writeFileSync fails part-way; the catch logs it
CacheWriteFails ==
    /\ pc = "writing"
    /\ writing' = [writing EXCEPT !.state = "failed"]
    /\ ReturnFresh
    /\ UNCHANGED <<valVars, standingsVars, attempt, lastError, fetched, delay, log, now, cacheDir,
                   cache, calls, site, exitCode, builds>>

\* loadCachedData(): the result it returns, or that it throws
CacheUsable(content) ==
    /\ content.kind = "entry"
    /\ Snapshot(content.data).truthy
    /\ StandingsOf(Snapshot(content.data)).truthy
    /\ LET validationResult == Validated(content.data)
       IN  ~validationResult.threw /\ validationResult.isValid

loadCachedData == CachedResult(cache)

\* All retries failed: loadCachedData() returns, or throws and fetchNHLData
\* throws its own error
Fallback ==
    /\ pc = "fallback"
    /\ IF CacheUsable(cache)
       THEN fetchResult' = loadCachedData /\ pc' = "returned"
       ELSE fetchResult' = FatalError(lastError) /\ pc' = "threw"
    /\ UNCHANGED <<valVars, standingsVars, attempt, lastError, fetched, delay, log, now, cacheDir,
                   cache, writing, calls, site, exitCode, builds>>

(***************************************************************************)
(* scripts/build: build                                                    *)
(***************************************************************************)
\* The document handed to generateSite: the standings of a snapshot, when
\* they were processed, and the optional staleness fields.
NoDocument ==
    [build |-> 0, data |-> "", lastUpdated |-> 0, hasIsStaleData |-> FALSE,
     isStaleData |-> FALSE, hasCacheTimestamp |-> FALSE, cacheTimestamp |-> 0]

\* Document setting the staleness fields whatever the result
DocumentAlwaysFlagged(result) ==
    [build |-> builds, data |-> result.data, lastUpdated |-> now,
     hasIsStaleData |-> TRUE, isStaleData |-> result.isStale,
     hasCacheTimestamp |-> TRUE, cacheTimestamp |-> result.cacheTimestamp]

\* processStandings(fetchResult.data) and the stale data flag added to it
Document(result) ==
    [build |-> builds, data |-> result.data, lastUpdated |-> now,
     hasIsStaleData |-> result.isStale, isStaleData |-> result.isStale,
     hasCacheTimestamp |-> result.isStale /\ result.hasTimestamp,
     cacheTimestamp |-> IF result.isStale THEN result.cacheTimestamp ELSE 0]

\* build() is run
BuildStart ==
    /\ pc = "idle" /\ builds < MaxBuilds
    /\ builds' = builds + 1
    /\ attempt' = 1
    /\ lastError' = "" /\ fetched' = "" /\ delay' = 0 /\ log' = <<>>
    /\ writing' = NoWrite /\ fetchResult' = NoResult /\ calls' = <<>>
    /\ exitCode' = -1
    /\ pc' = "attempt"
    /\ UNCHANGED <<valVars, standingsVars, now, cacheDir, cache, site>>

\* Steps 2 and 3 of build: the standings are processed and the site generated
BuildGenerates ==
    /\ pc = "returned"
    /\ calls' = <<"processStandings", "generateSite">>
    /\ site' = Document(fetchResult)
    /\ exitCode' = 0
    /\ pc' = "idle"
    /\ UNCHANGED <<valVars, standingsVars, attempt, lastError, fetched, delay, log, now, cacheDir,
                   cache, writing, fetchResult, builds>>

\* Steps 2 and 3 of build, generateSite throwing: the catch block exits with 1
BuildGenerateFails ==
    /\ pc = "returned"
    /\ calls' = <<"processStandings", "generateSite">>
    /\ site' = Document(fetchResult)
    /\ exitCode' = 1
    /\ pc' = "idle"
    /\ UNCHANGED <<valVars, standingsVars, attempt, lastError, fetched, delay, log, now, cacheDir,
                   cache, writing, fetchResult, builds>>

\* fetchNHLData threw: the catch block of build exits with 1
BuildFails ==
    /\ pc = "threw"
    /\ exitCode' = 1
    /\ pc' = "idle"
    /\ UNCHANGED <<valVars, standingsVars, attempt, lastError, fetched, delay, log, now, cacheDir,
                   cache, writing, fetchResult, calls, site, builds>>

\* The validator has not been called.
NotCalled == [called |-> FALSE, threw |-> FALSE, isValid |-> FALSE, errors |-> <<>>]

\* No build has run yet.
BuildQuiet ==
    /\ pc = "idle" /\ attempt = 0 /\ lastError = "" /\ fetched = "" /\ delay = 0
    /\ log = <<>> /\ now = 0 /\ writing = NoWrite /\ fetchResult = NoResult
    /\ calls = <<>> /\ site = NoDocument /\ exitCode = -1 /\ builds = 0

\* What CACHE_FILE may hold when the first build starts: nothing, or a
\* document left by an earlier run or restored from elsewhere.
InitialCaches ==
    {Absent} \cup {CacheEntry(d, -3600000) : d \in {"league", "short", "nullEntry", "noStandings", "null"}}

InitBuild ==
    /\ BuildQuiet
    /\ cache \in InitialCaches
    /\ cacheDir = (cache # Absent)
    /\ vin = Primitive("null", FALSE) /\ vres = NotCalled
    /\ StandingsQuiet

NextBuild ==
    \/ BuildStart
    \/ AttemptNetworkError \/ AttemptHttpError \/ AttemptParseError
    \/ AttemptInvalid \/ AttemptValid
    \/ SleepDone
    \/ CacheMkdirFails \/ CacheOpenFails \/ CacheWriteOpens
    \/ CacheWriteCompletes \/ CacheWriteFails
    \/ Fallback
    \/ BuildGenerates \/ BuildGenerateFails \/ BuildFails

SpecBuild == InitBuild /\ [][NextBuild]_vars

\* A step of a fetchNHLData call.  Every fetch and every read or write of
\* the cache file returns or fails, and the timer of a wait fires: a call
\* that can take a step takes one.
FetchStep ==
    \/ AttemptNetworkError \/ AttemptHttpError \/ AttemptParseError
    \/ AttemptInvalid \/ AttemptValid
    \/ SleepDone
    \/ CacheMkdirFails \/ CacheOpenFails \/ CacheWriteOpens
    \/ CacheWriteCompletes \/ CacheWriteFails
    \/ Fallback

SpecBuildFair == InitBuild /\ [][NextBuild]_vars /\ WF_vars(FetchStep)

(***************************************************************************)
(* The validator applied to one input                                      *)
(***************************************************************************)
ValidatorInput(v) ==
    \/ v \in ShapeInputs
    \/ \E n \in Counts : v = LeaguePayload(n) \/ v = AtlanticPayload(n)
    \/ \E pos \in Positions, e \in NonObjectEntries :
          v = WithEntry(League, pos, e)
    \/ \E pos \in Positions, field \in EntryFields, x \in OverrideValues :
          v = WithEntry(League, pos,
                        WithField(LeagueTeam(pos), field, x))
    \/ \E field1 \in {"teamName", "conferenceName"}, x1 \in {JsUndefined, JsNull},
          nv \in 1 .. Len(numericValidations), x2 \in OverrideValues :
          v = WithEntry(League, 1,
                        WithField(WithField(LeagueTeam(1), field1, x1),
                                  numericValidations[nv].field, x2))
    \/ \E pos \in {EXPECTED_TEAM_COUNT}, w \in StatChoices, l \in StatChoices, otl \in StatChoices,
          dp \in Deltas, dg \in Deltas, dr \in Deltas :
          v = WithEntry(League, pos,
                        StatEntry(LeagueTeam(pos), w, l, otl, dp, dg, dr))

\* a call validateNHLApiResponse(vin)
Validate ==
    /\ ~vres.called
    /\ vres' = [called |-> TRUE] @@ validateNHLApiResponse(vin)
    /\ UNCHANGED <<vin, buildVars, standingsVars>>

InitValidate ==
    /\ ValidatorInput(vin)
    /\ vres = NotCalled
    /\ BuildQuiet /\ cache = Absent /\ cacheDir = FALSE
    /\ StandingsQuiet

NextValidate == Validate

SpecValidate == InitValidate /\ [][NextValidate]_vars

(***************************************************************************)
(* The ranking engine applied to its arguments                             *)
(***************************************************************************)
InitRank ==
    /\ \E n \in 0 .. MaxTeams :
          \E choice \in [1 .. n -> RankProfiles] :
              teams = [i \in 1 .. n |-> createTeam(i, choice[i])]
    /\ ranked = NoCall
    /\ raw = <<>> /\ stage = "idle" /\ doc = NoDocumentYet
    /\ proj = NoProjection /\ AppQuiet
    /\ BuildQuiet /\ cache = Absent /\ cacheDir = FALSE
    /\ vin = Primitive("null", FALSE) /\ vres = NotCalled

NextRank == CallPointPercentage \/ CallTiebreaker \/ CallSort \/ CallSortAgain

SpecRank == InitRank /\ [][NextRank]_vars

(***************************************************************************)
(* processStandings applied to a snapshot                                  *)
(***************************************************************************)
InitProcess ==
    /\ \/ \E n \in 0 .. MaxLeague,
             layout \in {"one", "alternate", "mixed", "spanning"} :
             \E choice \in [1 .. n -> ProcessProfiles] :
                 raw = RawStandings(n, choice, layout)
       \/ \E choice \in [1 .. (MaxLeague + 3) -> WideProfiles] :
             raw = RawStandings(MaxLeague + 3, choice, "interleaved")
    /\ stage = "start"
    /\ doc = NoDocumentYet
    /\ teams = <<>> /\ ranked = NoCall
    /\ proj = NoProjection /\ AppQuiet
    /\ BuildQuiet /\ cache = Absent /\ cacheDir = FALSE
    /\ vin = Primitive("null", FALSE) /\ vres = NotCalled

NextProcess ==
    \/ ProcessTransform \/ ProcessPercentages \/ ProcessDivisionLeaders
    \/ ProcessWildCards \/ ProcessConferenceRanks \/ ProcessReturn

SpecProcess == InitProcess /\ [][NextProcess]_vars

(***************************************************************************)
(* The projector applied to a team and a threshold                         *)
(***************************************************************************)
InitProject ==
    /\ proj = NoProjection /\ AppQuiet
    /\ teams = <<>> /\ ranked = NoCall
    /\ raw = <<>> /\ stage = "idle" /\ doc = NoDocumentYet
    /\ BuildQuiet /\ cache = Absent /\ cacheDir = FALSE
    /\ vin = Primitive("null", FALSE) /\ vres = NotCalled

NextProject == Project

SpecProject == InitProject /\ [][NextProject]_vars

\* The page: opened with sessionStorage empty or holding any text, then
\* used; the callbacks run whenever the browser gets to them.
InitApp ==
    /\ \E storage \in {NoItem} \cup {Item(text, FALSE) : text \in ThresholdTexts} :
          ui = [NoPage.ui EXCEPT !.storage = storage]
    /\ timers = NoPage.timers
    /\ teams = <<>> /\ ranked = NoCall
    /\ raw = <<>> /\ stage = "idle" /\ doc = NoDocumentYet
    /\ proj = NoProjection
    /\ BuildQuiet /\ cache = Absent /\ cacheDir = FALSE
    /\ vin = Primitive("null", FALSE) /\ vres = NotCalled

NextApp ==
    PageLoad \/ InputEvent \/ EnterKey \/ ClearClick \/ AnimationFrame \/ HideTimerFires

SpecApp == InitApp /\ [][NextApp]_vars

(***************************************************************************)
(* Properties of the validator                                             *)
(***************************************************************************)
\* The entries of the input, when it is an object with a standings array.
Items(v) == IF v.t = "object" /\ v.standings.t = "array" THEN v.standings.items ELSE <<>>

\* The six counted properties of an entry, and whether all are finite numbers.
StatFields == {numericValidations[i].field : i \in 1 .. Len(numericValidations)}
HasStats(team) ==
    team.t = "object" /\ \A f \in StatFields : team.f[f].t = "number" /\ team.f[f].k = "fin"
Stat(team, f) == team.f[f].n

\* The record of an entry is consistent and within the season's limits.
Consistent(team) ==
    /\ HasStats(team)
    /\ Stat(team, "gamesPlayed") = Stat(team, "wins") + Stat(team, "losses") + Stat(team, "otLosses")
    /\ Stat(team, "points") = Stat(team, "wins") * 2 + Stat(team, "otLosses")
    /\ Stat(team, "regulationWins") <= Stat(team, "wins")
    /\ \A f \in StatFields \ {"points"} : Stat(team, f) >= 0 /\ Stat(team, f) <= 82
    /\ Stat(team, "points") >= 0 /\ Stat(team, "points") <= 164

\* The properties of an entry with finite numbers that break one of the rules.
Offending(team) ==
    {f \in StatFields \ {"points"} : Stat(team, f) < 0 \/ Stat(team, f) > 82}
    \cup (IF Stat(team, "points") < 0 \/ Stat(team, "points") > 164 THEN {"points"} ELSE {})
    \cup (IF Stat(team, "gamesPlayed")
              # Stat(team, "wins") + Stat(team, "losses") + Stat(team, "otLosses")
          THEN {"gamesPlayed"} ELSE {})
    \cup (IF Stat(team, "points") # Stat(team, "wins") * 2 + Stat(team, "otLosses")
          THEN {"points"} ELSE {})
    \cup (IF Stat(team, "regulationWins") > Stat(team, "wins")
          THEN {"regulationWins"} ELSE {})

\* The result names property f of the entry at position i (from 1).
Names(res, i, f) ==
    \E e \in 1 .. Len(res.errors) : res.errors[e].field = Prefix(i - 1) \o "." \o f

\* The entry has every required field.
Complete(team) == \A i \in 1 .. Len(requiredFields) : ~IsMissing(team, requiredFields[i])

TeamsIn(items, field, name) ==
    Cardinality({i \in 1 .. Len(items) : items[i].f[field] = JsStr(name)})

\* C8: validateNHLApiResponse never raises; whatever value it is given, the
\* call returns a ValidationResult.
C8_NeverRaises == vres.called => ~vres.threw

\* C9 as stated: every accepted snapshot has exactly 32 teams, exactly 8 in
\* each of the 4 known divisions and exactly 16 in each of the 2 known
\* conferences.
C9_AcceptedDistribution ==
    (vres.called /\ ~vres.threw /\ vres.isValid) =>
        /\ Len(Items(vin)) = 32
        /\ \A d \in 1 .. Len(VALID_DIVISIONS) :
              TeamsIn(Items(vin), "divisionName", VALID_DIVISIONS[d]) = 8
        /\ \A c \in 1 .. Len(VALID_CONFERENCES) :
              TeamsIn(Items(vin), "conferenceName", VALID_CONFERENCES[c]) = 16

\* C9 amended: every accepted snapshot has exactly 32 teams, each of them in
\* one of the 4 known divisions and one of the 2 known conferences; how many
\* teams a division or a conference holds is not checked.
C9_AcceptedMembership ==
    (vres.called /\ ~vres.threw /\ vres.isValid) =>
        /\ Len(Items(vin)) = 32
        /\ \A i \in 1 .. Len(Items(vin)) :
              /\ Includes(VALID_DIVISIONS, Items(vin)[i].f.divisionName)
              /\ Includes(VALID_CONFERENCES, Items(vin)[i].f.conferenceName)

\* C9 witness: an accepted snapshot whose 32 teams are all in one division.
C9_Witness ==
    /\ vres.called /\ ~vres.threw /\ vres.isValid
    /\ TeamsIn(Items(vin), "divisionName", "Atlantic") = 32

Passes(name) ==
    LET r == validateNHLApiResponse(Snapshot(name)) IN ~r.threw /\ r.isValid

\* The valid documents among those of the model.
PassingNames == {name \in SnapshotNames : Passes(name)}

\* All attempts of the current call failed.
AllFailed == \E i \in 1 .. Len(log) : log[i].e = "fail" /\ log[i].n = 3

\* An attempt of the current call succeeded.
Succeeded == \E i \in 1 .. Len(log) : log[i].e = "ok"

\* The call of fetchNHLData of the current run has ended.
CallEnded == fetchResult.kind # "none"

\* The cache file holds a complete entry whose payload passes validation.
GoodCache == cache.kind = "entry" /\ cache.data \in PassingNames

\* C1: a call makes at most 3 attempts; a failed attempt 1 or 2 is followed
\* by a wait of 1000 * 2^(attempt-1) ms and the next attempt starts no
\* earlier than that; nothing, and so no wait, follows a failed attempt 3.
C1_RetrySchedule ==
    /\ Cardinality({i \in 1 .. Len(log) : log[i].e = "attempt"}) <= 3
    /\ \A i \in 1 .. Len(log) :
          /\ (log[i].e = "attempt") => (log[i].n \in 1 .. 3)
          /\ (log[i].e = "attempt" /\ log[i].n > 1) =>
                /\ i > 3
                /\ log[i - 2].e = "fail" /\ log[i - 2].n = log[i].n - 1
                /\ log[i - 1].e = "wait"
                /\ log[i].at >= log[i - 2].at + 1000 * 2 ^ (log[i].n - 2)
          /\ (log[i].e = "fail" /\ log[i].n < 3) =>
                /\ i < Len(log)
                /\ log[i + 1].e = "wait"
                /\ log[i + 1].n = 1000 * 2 ^ (log[i].n - 1)
          /\ (log[i].e = "fail" /\ log[i].n = 3) => i = Len(log)
          /\ (log[i].e = "wait") =>
                i > 1 /\ log[i - 1].e = "fail" /\ log[i].n \in {1000, 2000}
    /\ pc = "sleep" => delay = log[Len(log)].n

\* C1 witness: three failed attempts, with the two waits between them.
C1_Witness ==
    /\ pc = "fallback" /\ Len(log) = 8
    /\ log[3].e = "wait" /\ log[3].n = 1000
    /\ log[6].e = "wait" /\ log[6].n = 2000
    /\ log[8].e = "fail" /\ log[8].n = 3

\* The first success ends the loop: a success is the last entry of the
\* history, and the call returns its payload with isStale = false.
FirstSuccessReturned ==
    /\ \A i \in 1 .. Len(log) :
          (log[i].e = "ok") =>
             /\ i = Len(log)
             /\ log[i].x \in PassingNames
             /\ log[i - 1].e = "attempt" /\ log[i - 1].n = log[i].n
    /\ (CallEnded /\ Succeeded) =>
          /\ fetchResult.kind = "ok" /\ ~fetchResult.isStale
          /\ ~fetchResult.hasTimestamp
          /\ fetchResult.data = log[Len(log)].x

\* C2 as stated: the first attempt that succeeds and passes validation ends
\* the loop, its payload is persisted to the cache as {data, timestamp}, and
\* the call returns that payload with isStale = false.
C2_FirstSuccessPersisted ==
    /\ FirstSuccessReturned
    /\ (CallEnded /\ Succeeded) =>
          cache = CacheEntry(log[Len(log)].x, log[Len(log)].at)

\* C2 amended: the same, the payload being persisted unless the write of the
\* cache fails.
C2_FirstSuccessPersistedUnlessWriteFails ==
    /\ FirstSuccessReturned
    /\ (CallEnded /\ Succeeded) =>
          /\ writing.state \in {"done", "failed"}
          /\ writing.state = "done" =>
                cache = CacheEntry(log[Len(log)].x, log[Len(log)].at)

\* C2 witness: a success at a later attempt, returned and persisted.
C2_Witness ==
    /\ CallEnded /\ Succeeded /\ writing.state = "done"
    /\ fetchResult.data = "atlantic" /\ cache.data = "atlantic"
    /\ log[Len(log)].n = 3

\* C3: when all 3 attempts failed and the cache holds an entry whose payload
\* passes validation, the call returns that payload with isStale = true and
\* the timestamp stored in the entry.
C3_FallbackReturnsCache ==
    (CallEnded /\ AllFailed /\ GoodCache) =>
        /\ fetchResult.kind = "ok" /\ fetchResult.isStale
        /\ fetchResult.data = cache.data
        /\ fetchResult.hasTimestamp
        /\ fetchResult.cacheTimestamp = cache.timestamp

\* C3 witness: a fallback to an entry written by an earlier run, whose
\* timestamp is not the current time.
C3_Witness ==
    /\ CallEnded /\ AllFailed /\ GoodCache /\ fetchResult.isStale
    /\ builds = 2 /\ cache.timestamp >= 0 /\ fetchResult.cacheTimestamp < now

\* C4: when all 3 attempts failed and the cache is absent or does not pass
\* validation, the call throws an error naming the failure of attempt 3,
\* neither processStandings nor generateSite is called, no document is
\* produced and the run exits with a failure.
C4_FatalFailure ==
    (CallEnded /\ AllFailed /\ ~GoodCache) =>
        /\ fetchResult.kind = "threw"
        /\ fetchResult.message =
              "Failed to fetch NHL data after 3 attempts and no cached data available. Last error: "
              \o log[Len(log)].x
        /\ calls = <<>>
        /\ site.build # builds
        /\ pc \in {"threw", "idle"}
        /\ pc = "idle" => exitCode = 1

\* C4 witness: a run that ended with a failure exit after three attempts
\* that failed in different ways.
C4_Witness ==
    /\ pc = "idle" /\ exitCode = 1 /\ fetchResult.kind = "threw"
    /\ Len(log) = 8 /\ log[2].x # log[8].x /\ log[5].x # log[8].x
    /\ cache.kind = "partial"

\* C5: a failure of the cache write does not change the outcome: the call
\* returns the fresh payload with isStale = false, the attempt is not counted
\* as failed and no retry follows.
C5_WriteFailureHarmless ==
    (writing.state = "failed") =>
        /\ fetchResult.kind = "ok" /\ ~fetchResult.isStale
        /\ fetchResult.data = fetched
        /\ log[Len(log)].e = "ok" /\ log[Len(log)].x = fetched
        /\ \A i \in 1 .. Len(log) : log[i].e = "fail" => log[i].n < log[Len(log)].n
        /\ pc \in {"returned", "idle"}

\* C5 witness: a run that completed with the fresh document although the
\* cache write failed.
C5_Witness ==
    /\ writing.state = "failed" /\ pc = "idle" /\ exitCode = 0
    /\ site.build = builds /\ site.data = fetched /\ ~site.hasIsStaleData

\* C6: cache writes are atomic: during and after a write the cache file
\* holds the complete previous content or the complete new entry, and a
\* failed write leaves the previous content intact.
C6_AtomicCacheWrite ==
    (writing.state # "none") =>
        /\ cache \in {writing.before, writing.entry}
        /\ writing.state = "failed" => cache = writing.before

\* C7: the document passed to generateSite has isStaleData = true and the
\* cache entry's timestamp exactly when fetchNHLData returned the cached
\* snapshot; for a fresh snapshot it carries neither field.
C7_StaleFlag ==
    (site.build = builds /\ builds > 0) =>
        /\ calls = <<"processStandings", "generateSite">>
        /\ AllFailed <=> (site.hasIsStaleData /\ site.isStaleData)
        /\ AllFailed =>
              /\ site.hasCacheTimestamp /\ site.cacheTimestamp = cache.timestamp
              /\ site.data = cache.data
        /\ ~AllFailed =>
              /\ ~site.hasIsStaleData /\ ~site.hasCacheTimestamp
              /\ site.data = log[Len(log)].x

\* C7 witness: a document generated from the cached snapshot, carrying the
\* timestamp of an entry written by an earlier run.
C7_Witness ==
    /\ site.build = builds /\ builds = 2
    /\ site.isStaleData /\ site.hasCacheTimestamp
    /\ site.cacheTimestamp >= 0 /\ site.cacheTimestamp < site.lastUpdated

(***************************************************************************)
(* More properties of the validator                                        *)
(***************************************************************************)
\* The errors an entry has on its own: those of the field checks applied to
\* whatever the entry is.
RECURSIVE OwnErrors(_, _)
OwnErrors(items, n) ==
    IF n = 0 THEN <<>>
    ELSE OwnErrors(items, n - 1) \o TeamErrors(items[n], n - 1)

HasStandingsArray(v) == v.t = "object" /\ v.standings.t = "array"

\* C11: for a payload whose standings is an array the call returns; a count
\* other than 32 adds one count error in front, the errors of every entry
\* follow in entry order, and isValid is true exactly when the list is empty.
C11_AccumulatesEveryError ==
    (vres.called /\ HasStandingsArray(vin)) =>
        /\ ~vres.threw
        /\ vres.errors =
              (IF Len(Items(vin)) # 32 THEN <<Err("standings.length", "count")>> ELSE <<>>)
                  \o OwnErrors(Items(vin), Len(Items(vin)))
        /\ vres.isValid <=> (vres.errors = <<>>)

RanksAbove(a, b) ==
    \/ a.pointPercentage > b.pointPercentage
    \/ /\ a.pointPercentage = b.pointPercentage
       /\ \/ a.gamesPlayed < b.gamesPlayed
          \/ a.gamesPlayed = b.gamesPlayed /\ a.regulationWins > b.regulationWins
SameKeys(a, b) ==
    /\ a.pointPercentage = b.pointPercentage
    /\ a.gamesPlayed = b.gamesPlayed
    /\ a.regulationWins = b.regulationWins

Occurrences(arr, t) == Cardinality({k \in 1 .. Len(arr) : arr[k] = t})
IsPermutation(out, in) ==
    /\ Len(out) = Len(in)
    /\ \A k \in 1 .. Len(in) : Occurrences(out, in[k]) = Occurrences(in, in[k])
PositionIn(arr, t) == CHOOSE k \in 1 .. Len(arr) : arr[k] = t

\* out is arr in standings order, teams equal on the three keys in the
\* order they have in arr
StablySorted(out, in) ==
    /\ IsPermutation(out, in)
    /\ \A i \in 1 .. Len(out), j \in 1 .. Len(out) :
          (i < j) => /\ ~RanksAbove(out[j], out[i])
                     /\ SameKeys(out[i], out[j]) =>
                            PositionIn(in, out[i]) < PositionIn(in, out[j])

C15_InputKeptAndIdempotent ==
    ranked.op = "sortTeamsByStandings" =>
        /\ teams = ranked.input
        /\ ranked.again => (ranked.value = ranked.input)

\* C15 witness: the second sort of an array the first sort had to reorder.
C15_Witness ==
    /\ ranked.op = "sortTeamsByStandings" /\ ranked.again
    /\ teams = ranked.input
    /\ \E i \in 1 .. Len(ranked.value), j \in 1 .. Len(ranked.value) :
          i < j /\ ranked.value[i].id > ranked.value[j].id

(***************************************************************************)
(* Properties of the classifier                                            *)
(***************************************************************************)
TeamSet(ts) == {ts[i] : i \in 1 .. Len(ts)}
GroupSet(ts, field, key) == {t \in TeamSet(ts) : t[field] = key}
KeysOf(ts, field) == {ts[i][field] : i \in 1 .. Len(ts)}
Least(a, b) == IF a < b THEN a ELSE b

\* Within every group of the field the ranks are exactly 1 .. size, and a
\* team that ranks above another by the three keys has the smaller rank.
RanksByPosition(ts, field, rank) ==
    \A key \in KeysOf(ts, field) :
        LET group == GroupSet(ts, field, key)
        IN  /\ {t[rank] : t \in group} = 1 .. Cardinality(group)
            /\ \A a \in group, b \in group :
                  /\ (a # b) => (a[rank] # b[rank])
                  /\ RanksAbove(a, b) => (a[rank] < b[rank])

\* C16: after the classification pipeline the divisionRank values of a
\* division of N teams are exactly 1..N without repeats, the conferenceRank
\* values of a conference of M teams are exactly 1..M without repeats, and
\* each is the position in the group's standings order.
C16_RanksArePermutations ==
    (stage \in {"ranks", "returned"}) =>
        /\ Len(teams) = Len(raw)
        /\ Cardinality(TeamSet(teams)) = Len(raw)
        /\ RanksByPosition(teams, "division", "divisionRank")
        /\ RanksByPosition(teams, "conference", "conferenceRank")

\* C16 witness: a classified league with two divisions in one conference,
\* one of at least 4 teams, with two teams of different divisions equal on
\* every key.
C16_Witness ==
    /\ stage = "returned"
    /\ Cardinality(KeysOf(teams, "division")) = 2
    /\ Cardinality(KeysOf(teams, "conference")) = 1
    /\ \E a \in TeamSet(teams), b \in TeamSet(teams) :
          /\ a.division # b.division /\ SameKeys(a, b)
          /\ a.divisionRank = 4 /\ a.conferenceRank + 1 = b.conferenceRank

\* C17: once identifyDivisionLeaders has run, isDivisionLeader holds exactly
\* for divisionRank <= 3, a division has min(3, size) leaders, and they are
\* the first teams of the division in sortTeamsByStandings order (of equal
\* teams, those earlier in the input).
C17_DivisionLeaders ==
    (stage \in {"leaders", "wildCards", "ranks", "returned"}) =>
        /\ \A t \in TeamSet(teams) : t.isDivisionLeader <=> (t.divisionRank <= 3)
        /\ \A d \in KeysOf(teams, "division") :
              LET group == GroupSet(teams, "division", d)
                  leaders == {t \in group : t.isDivisionLeader}
              IN  /\ Cardinality(leaders) = Least(3, Cardinality(group))
                  /\ {t.divisionRank : t \in leaders} = 1 .. Cardinality(leaders)
                  /\ \A a \in leaders, b \in group \ leaders :
                        /\ ~RanksAbove(b, a)
                        /\ SameKeys(a, b) => (a.id < b.id)

\* C17 witness: a division of exactly 4 teams whose third and fourth are
\* equal on every key; the top 3 lead with ranks 1, 2, 3, the fourth does not.
C17_Witness ==
    /\ stage = "leaders"
    /\ \E d \in KeysOf(teams, "division") :
          LET group == GroupSet(teams, "division", d)
          IN  /\ Cardinality(group) = 4
              /\ \E a \in group, b \in group :
                    /\ a.divisionRank = 3 /\ a.isDivisionLeader
                    /\ b.divisionRank = 4 /\ ~b.isDivisionLeader
                    /\ SameKeys(a, b)

\* The flags of the wild cards of one conference: none on a leader, on
\* min(2, non-leaders) teams, and no unflagged non-leader ranks above a
\* flagged one.
WildCardFlags(ts, c) ==
    LET group == GroupSet(ts, "conference", c)
        nonLeaders == {t \in group : ~t.isDivisionLeader}
        wild == {t \in group : t.isWildCard}
    IN  /\ wild \subseteq nonLeaders
        /\ Cardinality(wild) = Least(2, Cardinality(nonLeaders))
        /\ \A w \in wild, x \in nonLeaders \ wild : ~RanksAbove(x, w)

\* C18: after identifyWildCards, isWildCard holds exactly for the first 2 of
\* the conference's non-leaders in sortTeamsByStandings order (of equal
\* teams, those the function met first); no team is leader and wild card,
\* and a conference has min(2, non-leaders) wild cards.
C18_WildCards ==
    /\ (stage \in {"wildCards", "ranks", "returned"}) =>
          \A c \in KeysOf(teams, "conference") : WildCardFlags(teams, c)
    /\ (stage = "wildCards") =>
          \A w \in TeamSet(teams), x \in TeamSet(teams) :
              (/\ w.conference = x.conference
               /\ w.isWildCard /\ ~x.isWildCard /\ ~x.isDivisionLeader
               /\ SameKeys(w, x))
                  => PositionIn(teams, w) < PositionIn(teams, x)

\* C18 witness: a conference with at least 3 non-leaders, the second wild
\* card equal on every key to a non-leader of another division left out.
C18_Witness ==
    /\ stage = "wildCards"
    /\ \E w \in TeamSet(teams), x \in TeamSet(teams) :
          /\ w.conference = x.conference /\ w.division # x.division
          /\ w.isWildCard /\ ~x.isWildCard /\ ~x.isDivisionLeader
          /\ SameKeys(w, x)

\* The wild-card board of one conference of the document.
WildCardBoard(board, c) ==
    LET nonLeaders == {t \in GroupSet(teams, "conference", c) : ~t.isDivisionLeader}
    IN  /\ TeamSet(board) = nonLeaders
        /\ Len(board) = Cardinality(nonLeaders)
        /\ \A i \in 1 .. Len(board), j \in 1 .. Len(board) :
              (i < j) => ~RanksAbove(board[j], board[i])
        /\ \A i \in 1 .. Len(board) : board[i].isWildCard <=> (i <= 2)

\* C19: in the returned document the wildCards list of a conference holds
\* every team of the conference that is no division leader and no other, in
\* standings order; its first min(2, length) entries have isWildCard = true
\* and every later entry has isWildCard = false.
C19_WildCardBoard ==
    (stage = "returned") =>
        /\ WildCardBoard(doc.eastern.wildCards, "Eastern")
        /\ WildCardBoard(doc.western.wildCards, "Western")

\* C19 witness: a board of at least 3 teams whose second and third entries,
\* of different divisions, are equal on every key.
C19_Witness ==
    /\ stage = "returned"
    /\ Len(doc.eastern.wildCards) >= 3
    /\ SameKeys(doc.eastern.wildCards[2], doc.eastern.wildCards[3])
    /\ doc.eastern.wildCards[2].division # doc.eastern.wildCards[3].division

(***************************************************************************)
(* Properties of the projector                                             *)
(***************************************************************************)
\* C20: calculatePlayoffStats returns remainingGames = max(0, 82 - gamesPlayed),
\* remainingPoints = remainingGames * 2, maxPossiblePoints = points +
\* remainingPoints, pointsGap = threshold - points, and the status of the
\* first rule that applies: clinched if points >= threshold, eliminated if
\* maxPossiblePoints < threshold, competing otherwise; also for more than 82
\* games played.
C20_PlayoffStats ==
    proj.called =>
        LET team == proj.team
            threshold == proj.playoffThreshold
            r == proj.value
        IN  /\ r.remainingGames >= 0
            /\ r.remainingGames >= 82 - team.gamesPlayed
            /\ r.remainingGames = 0 \/ r.remainingGames = 82 - team.gamesPlayed
            /\ r.remainingPoints = r.remainingGames * 2
            /\ r.maxPossiblePoints = team.points + r.remainingPoints
            /\ r.pointsGap = threshold - team.points
            /\ r.playoffStatus \in {"clinched", "eliminated", "competing"}
            /\ (r.playoffStatus = "clinched") <=> (team.points >= threshold)
            /\ (r.playoffStatus = "eliminated") <=>
                  (team.points < threshold /\ r.maxPossiblePoints < threshold)
            /\ (r.playoffStatus = "competing") <=>
                  (team.points < threshold /\ r.maxPossiblePoints >= threshold)

\* C20 witness: a team with more than 82 games played, short of the
\* threshold: no games remain and it is eliminated.
C20_Witness ==
    /\ proj.called
    /\ proj.team.gamesPlayed > 82
    /\ proj.value.remainingGames = 0
    /\ proj.value.playoffStatus = "eliminated"
    /\ proj.value.pointsGap > 0

\* C21: in calculatePlayoffStats the competing status is reached only with
\* remainingPoints > 0, so the required percentage never has a zero divisor;
\* requiredPointsPercentage is non-null exactly when the status is competing,
\* and is then (pointsGap / remainingPoints) * 100.
C21_RequiredPercentage ==
    proj.called =>
        LET r == proj.value
            required == r.requiredPointsPercentage
        IN  /\ (r.playoffStatus = "competing") => (r.remainingPoints > 0)
            /\ (~required.isNull) <=> (r.playoffStatus = "competing")
            /\ (~required.isNull) =>
                  /\ required.den = r.remainingPoints
                  /\ required.den > 0
                  /\ required.num = r.pointsGap * 100

\* C21 witness: a competing team with one game left that needs both of its
\* points: the divisor is 2 and the percentage is 100.
C21_Witness ==
    /\ proj.called
    /\ proj.value.playoffStatus = "competing"
    /\ proj.value.remainingGames = 1
    /\ proj.value.requiredPointsPercentage = Percentage(200, 2)

\* C22: the tiebreaker rules are applied in order, games played (fewer is
\* better), then regulation wins (more is better), then regulation and
\* overtime wins (more is better): of two teams equal in pointPercentage,
\* gamesPlayed and regulationWins, sortTeamsByStandings puts the one with
\* more regulationPlusOtWins first.
C22_ThreeTiebreakers ==
    ranked.op = "sortTeamsByStandings" =>
        \A i \in 1 .. Len(ranked.value), j \in 1 .. Len(ranked.value) :
            (i < j /\ ranked.value[i].pointPercentage = ranked.value[j].pointPercentage) =>
                LET a == ranked.value[i]
                    b == ranked.value[j]
                IN  /\ a.gamesPlayed <= b.gamesPlayed
                    /\ (a.gamesPlayed = b.gamesPlayed) =>
                          (a.regulationWins >= b.regulationWins)
                    /\ SameKeys(a, b) =>
                          (a.regulationPlusOtWins >= b.regulationPlusOtWins)

\* A non-empty string.
NonEmptyString(v) == TypeOf(v) = "string" /\ v.s # ""

\* C23: every entry of a snapshot that validateNHLApiResponse accepts has a
\* teamName and a teamAbbrev that expose a non-empty string under `default`,
\* whatever the type of the value in the payload, so that transformToTeams
\* yields a non-empty string name and abbreviation for every team.
C23_NamesExposeDefault ==
    (vres.called /\ ~vres.threw /\ vres.isValid) =>
        \A i \in 1 .. Len(Items(vin)) :
            /\ NonEmptyString(DefaultOf(Get(Items(vin)[i], "teamName")))
            /\ NonEmptyString(DefaultOf(Get(Items(vin)[i], "teamAbbrev")))
            /\ (TypeOf(Get(Items(vin)[i], "regulationPlusOtWins")) = "number") =>
                  /\ NonEmptyString(transformToTeams(Items(vin))[i].name)
                  /\ NonEmptyString(transformToTeams(Items(vin))[i].abbreviation)

(***************************************************************************)
(* More properties of the acquirer                                         *)
(***************************************************************************)
\* A step that ends the wait of fetchNHLData before its time: the call is
\* over, with no time of the wait spent and no further attempt made.
WaitCancelled ==
    /\ NextBuild
    /\ pc' \in {"returned", "threw", "idle"}
    /\ now' = now
    /\ attempt' = attempt

\* C24: the wait between retries is cancellable: while fetchNHLData waits
\* between two attempts, the call can be ended without the remaining wait
\* and without the remaining attempts.
C24_WaitCancellable ==
    (pc = "sleep") => ENABLED WaitCancelled

(***************************************************************************)
(* More properties of the classifier                                       *)
(***************************************************************************)
ClassifierFunctions ==
    {"identifyDivisionLeaders", "identifyWildCards", "calculateConferenceRanks",
     "organizeConference"}

\* C25: identifyDivisionLeaders, identifyWildCards, calculateConferenceRanks
\* and organizeConference do not mutate their input: after each call the
\* array passed in holds the same teams in the same order, every field of
\* every one of them unchanged; flags and ranks are set on copies only.
C25_InputNotMutated ==
    (ranked.op \in ClassifierFunctions) => (ranked.argument = ranked.input)

\* C25 witness: identifyWildCards returned teams with the flag set, in an
\* order other than the order of its input, whose teams all have it unset.
C25_Witness ==
    /\ stage = "wildCards" /\ ranked.op = "identifyWildCards"
    /\ \E t \in TeamSet(teams) : t.isWildCard
    /\ \A t \in TeamSet(ranked.input) : ~t.isWildCard
    /\ \E i \in 1 .. Len(teams) : teams[i].id # ranked.input[i].id

(***************************************************************************)
(* Termination of the acquirer, and its cache                               *)
(***************************************************************************)
\* A call of fetchNHLData is under way.
InCall == pc \in {"attempt", "sleep", "cache", "writing", "fallback"}

\* The three outcomes of a call.
FreshSuccess == fetchResult.kind = "ok" /\ ~fetchResult.isStale
FallbackSuccess == fetchResult.kind = "ok" /\ fetchResult.isStale
FatalFailure == fetchResult.kind = "threw"

\* The call that ended has exactly one outcome, the one its history and the
\* cache call for.
OneOutcome ==
    /\ InCall => ~CallEnded
    /\ (pc = "returned") => (FreshSuccess \/ FallbackSuccess)
    /\ (pc = "threw") => FatalFailure
    /\ CallEnded =>
          /\ Cardinality({o \in {"fresh", "fallback", "fatal"} :
                             \/ o = "fresh" /\ FreshSuccess
                             \/ o = "fallback" /\ FallbackSuccess
                             \/ o = "fatal" /\ FatalFailure}) = 1
          /\ FreshSuccess <=> Succeeded
          /\ FallbackSuccess <=> (~Succeeded /\ AllFailed /\ CacheUsable(cache))
          /\ FatalFailure <=> (~Succeeded /\ AllFailed /\ ~CacheUsable(cache))

\* C26: provided every fetch and every cache read returns or fails, each
\* call of fetchNHLData eventually ends, in exactly one of fresh success
\* (isStale = false), fallback success (isStale = true) and fatal failure;
\* it fails only when no attempt succeeded and no usable cache exists, and
\* it returns no fallback data when an attempt succeeded.
C26_CallTerminates ==
    /\ []OneOutcome
    /\ InCall ~> CallEnded

\* C26 witness: the second run fell back, after three failed attempts, on
\* the entry that the first run wrote.
C26_Witness ==
    /\ builds = 2 /\ pc = "returned"
    /\ FallbackSuccess /\ AllFailed
    /\ cache.timestamp >= 0
    /\ fetchResult.cacheTimestamp = cache.timestamp
    /\ now >= cache.timestamp + 3000

\* The cache file holds nothing that a call wrote without validating it: an
\* entry written by a run (the entries found at the start are older than
\* the clock's origin) holds a payload that passes validation.
WrittenEntriesValid ==
    (cache.kind = "entry" /\ cache.timestamp >= 0) => (cache.data \in PassingNames)

\* A step changes the cache file only inside cacheResponse, after the fetch
\* of the current attempt succeeded and its payload passed validation, and
\* an entry it leaves there holds that payload.
CacheChangesOnlyOnSuccess ==
    (cache' # cache) =>
        /\ pc \in {"cache", "writing"}
        /\ fetched \in PassingNames
        /\ log[Len(log)] = [e |-> "ok", n |-> attempt, x |-> fetched, at |-> now]
        /\ (cache'.kind = "entry") => (cache' = CacheEntry(fetched, now))

\* C27: the cache entry is written only after a fetch that succeeded and
\* passed validation: a failed attempt, a rejected payload, a fallback read
\* and a fatal failure leave the cache entry unchanged, and the cache never
\* holds a payload that the validator rejected when it was written.
C27_CacheWrittenOnlyAfterValidation ==
    /\ []WrittenEntriesValid
    /\ [][CacheChangesOnlyOnSuccess]_vars

\* C27 witness: the second run, its three payloads rejected by the
\* validator, is about to read the cache, which still holds the entry the
\* first run wrote.
C27_Witness ==
    /\ builds = 2 /\ pc = "fallback"
    /\ \A i \in 1 .. Len(log) : (log[i].e = "fail") => (log[i].x = ValidationFailed)
    /\ cache.kind = "entry" /\ cache.timestamp >= 0
    /\ cache.timestamp + 3000 <= now

(***************************************************************************)
(* Properties of the returned document                                     *)
(***************************************************************************)
\* The division lists of the document, each with its conference and name.
DivisionLists ==
    {[conference |-> "eastern", division |-> d, list |-> doc.eastern.divisions[d]] :
        d \in DOMAIN doc.eastern.divisions}
    \cup
    {[conference |-> "western", division |-> d, list |-> doc.western.divisions[d]] :
        d \in DOMAIN doc.western.divisions}

\* The places of the document's division lists that hold the team of an id.
PlacesOf(id) ==
    {<<l, i>> \in DivisionLists \X (1 .. Len(raw)) :
        i <= Len(l.list) /\ l.list[i].id = id}

\* Every team of the snapshot, with the id of its place in the input, is in
\* exactly one place of one division list.
EveryTeamOnce ==
    \A id \in 1 .. Len(raw) :
        /\ Cardinality(PlacesOf(id)) = 1
        /\ \A p \in PlacesOf(id) :
              p[1].list[p[2]].abbreviation = DefaultOf(Get(raw[id], "teamAbbrev"))

\* A division list is in rank order.
InRankOrder(list) ==
    \A i \in 1 .. Len(list) :
        /\ list[i].divisionRank = i
        /\ \A j \in (i + 1) .. Len(list) :
              list[i].conferenceRank < list[j].conferenceRank

\* C28: in the document returned for a validated snapshot every input team
\* is exactly once among the division lists, of exactly one conference, with
\* the id of its place in the input, and each division list is in rank
\* order: the team at 0-based index i has divisionRank i + 1 and a lower
\* conferenceRank than every team after it, also when teams are tied.
C28_DivisionListsInRankOrder ==
    (stage = "returned") =>
        /\ EveryTeamOnce
        /\ \A l \in DivisionLists : InRankOrder(l.list)


(***************************************************************************)
(* Properties of the page                                                  *)
(***************************************************************************)
\* A threshold the calculator may work with.
ValidThresholdValue(threshold) ==
    threshold.t = "number" /\ threshold.k = "fin" /\ threshold.n \in 80 .. 120

\* The threshold of every calculatePlayoffStats call whose result a row
\* shows is an integer from 80 to 120, and so is what the page itself wrote
\* to sessionStorage.
ThresholdsInRange ==
    /\ \A r \in DOMAIN ui.rows :
          ui.rows[r].id # 0 => ValidThresholdValue(ui.rows[r].threshold)
    /\ (ui.storage.has /\ ui.storage.byApp) =>
          \E n \in 80 .. 120 : ui.storage.text = NumberToText(n)

\* An input event or an Enter key whose text fails validateThreshold leaves
\* the stored threshold, the cells and the columns as they were.
InvalidInputChangesNothing ==
    (/\ ui'.event.n = ui.event.n + 1
     /\ ui'.event.kind \in {"input", "enter"}
     /\ ~validateThreshold(ui'.event.text).valid)
    => /\ ui'.storage = ui.storage
       /\ ui'.rows = ui.rows
       /\ ui'.headerDisplay = ui.headerDisplay
       /\ ui'.tableActive = ui.tableActive
       /\ timers' = timers

\* C29: after any sequence of events of the page (input, Enter, clear, a
\* load with anything in sessionStorage) every calculatePlayoffStats call of
\* the page got an integer threshold from 80 to 120, the value the page
\* writes to sessionStorage is such an integer, and an input that fails
\* validateThreshold changes neither the stored threshold nor the
\* calculations shown.
C29_ThresholdAlwaysValid == []ThresholdsInRange /\ [][InvalidInputChangesNothing]_vars

\* A threshold of 95 was entered, then a text out of range: the page still
\* stores 95 and every row shows its cell for 95.
C29_Witness ==
    /\ ui.event.kind = "input" /\ ui.event.text = <<"1", "2", "1">>
    /\ ui.storage = Item(<<"9", "5">>, TRUE)
    /\ \A r \in DOMAIN ui.rows : ui.rows[r].id # 0 /\ ui.rows[r].threshold = JsNum(95)

\* The browser has run every callback it was handed.
NoPendingTimers ==
    timers.timeouts = <<>> /\ timers.frames = [header |-> FALSE, cells |-> {}]

\* C30: whenever a valid threshold is stored and every pending callback of
\* the page has run, the calculator columns are shown and every row has its
\* cell; so too when the threshold is cleared and a valid one is entered
\* before the 250 ms callback of hideCalculatorColumns runs.
C30_ColumnsShownWhenThresholdStored ==
    (/\ ui.loaded
     /\ ui.storage.has /\ validateThreshold(ui.storage.text).valid
     /\ NoPendingTimers)
    => /\ ui.headerDisplay = "table-cell"
       /\ ui.tableActive
       /\ \A r \in DOMAIN ui.rows : ui.rows[r].id # 0

====
